---- MODULE Spec2Model ----
(***************************************************************************)
(* Model of the MyCastle MCP gateway: AuthContext scope matching, the      *)
(* BaseMCPServer registries and calls, the MCPHost routing table, the      *)
(* application lifespan and the /api/mcp endpoints.                        *)
(* db holds the rows of the hosted database the tool handlers work on,     *)
(* calls the tool calls that are between two of their database requests.   *)
(* The last sections model tool handlers of the operations, attendance and *)
(* student services servers, and the XLSX transform service.               *)
(*                                                                         *)
(* Strings are sequences of tokens.  ":" "*" "/" and "mycastle://" are     *)
(* tokens of their own, a word is one token, and "student_services" is the *)
(* two tokens "student" "_services" so that it has "student" as a proper   *)
(* prefix, as in the source.                                               *)
(***************************************************************************)
EXTENDS Naturals, Integers, Sequences, FiniteSets, TLC

VARIABLES srv, hostServers, scopeToServer, hostInitialized,
          pool, appPhase, appStateHost, last, db, calls

vars == <<srv, hostServers, scopeToServer, hostInitialized,
          pool, appPhase, appStateHost, last, db, calls>>

(* ---------------------------------------------------------------------- *)
(* String helpers (str.split, in, startswith, replace)                    *)
(* ---------------------------------------------------------------------- *)

Contains(s, tok) == \E i \in 1..Len(s) : s[i] = tok

RECURSIVE SplitFirst(_, _)
\* s.split(sep)[0]: the tokens before the first sep, all of s without one
SplitFirst(s, sep) ==
    IF s = <<>> THEN <<>>
    ELSE IF Head(s) = sep THEN <<>>
    ELSE <<Head(s)>> \o SplitFirst(Tail(s), sep)

StartsWith(s, tok) == Len(s) > 0 /\ s[1] = tok

RECURSIVE RemoveAll(_, _)
\* s.replace(tok, "")
RemoveAll(s, tok) ==
    IF s = <<>> THEN <<>>
    ELSE IF Head(s) = tok THEN RemoveAll(Tail(s), tok)
    ELSE <<Head(s)>> \o RemoveAll(Tail(s), tok)

IsPrefixOf(p, s) == Len(p) <= Len(s) /\ SubSeq(s, 1, Len(p)) = p

InSeq(x, seq) == \E i \in 1..Len(seq) : seq[i] = x

SeqToSet(seq) == {seq[i] : i \in 1..Len(seq)}

(* ---------------------------------------------------------------------- *)
(* AuthContext (mcp/types.py)                                             *)
(* ---------------------------------------------------------------------- *)

UserRole == {"super_admin", "admin", "admin_dos", "admin_reception",
             "admin_student_operations", "admin_sales", "admin_marketing",
             "admin_agent", "teacher", "teacher_dos",
             "teacher_assistant_dos", "student", "guest"}

W(p) == p \o <<":", "*">>

\* a has_scope that matches by string prefix instead of by the split part
has_scope_prefixmatch(scopes, scope) ==
    InSeq(scope, scopes)
    \/ \E i \in 1..Len(scopes) :
          /\ Len(scopes[i]) >= 2
          /\ SubSeq(scopes[i], Len(scopes[i]) - 1, Len(scopes[i])) = <<":", "*">>
          /\ IsPrefixOf(SubSeq(scopes[i], 1, Len(scopes[i]) - 2), scope)

has_scope(scopes, scope) ==
    LET base_scope == SplitFirst(scope, ":")
    IN  InSeq(scope, scopes) \/ InSeq(W(base_scope), scopes)

(* ---------------------------------------------------------------------- *)
(* The six server classes (mcp/servers/*.py): constructor arguments and   *)
(* the registrations their initialize() performs, in source order.        *)
(* "BaseMCPServer" is a further server, BaseMCPServer.__init__ called     *)
(* with the name of the finance server and a scope prefix of its own; its *)
(* initialize() registers nothing.                                        *)
(* ---------------------------------------------------------------------- *)

STUDENT_SERVICES == <<"student", "_services">>

ClassOrder == <<"FinanceMCP", "StudentServicesMCP", "StudentMCP",
                "AcademicMCP", "AttendanceMCP", "OperationsMCP">>

Classes == SeqToSet(ClassOrder)

ServerName(c) ==
    CASE c = "FinanceMCP"         -> "finance-mcp"
      [] c = "AcademicMCP"        -> "academic-mcp"
      [] c = "AttendanceMCP"      -> "attendance-mcp"
      [] c = "StudentServicesMCP" -> "student-services-mcp"
      [] c = "OperationsMCP"      -> "operations-mcp"
      [] c = "StudentMCP"         -> "student-mcp"
      [] c = "BaseMCPServer"      -> "finance-mcp"

ScopeWord(c) ==
    CASE c = "FinanceMCP"         -> <<"finance">>
      [] c = "AcademicMCP"        -> <<"academic">>
      [] c = "AttendanceMCP"      -> <<"attendance">>
      [] c = "StudentServicesMCP" -> STUDENT_SERVICES
      [] c = "OperationsMCP"      -> <<"ops">>
      [] c = "StudentMCP"         -> <<"student">>
      [] c = "BaseMCPServer"      -> <<"billing">>

\* the scope argument of super().__init__
ServerScope(c) == W(ScopeWord(c))

\* the name arguments of the register_tool calls of _register_tools
ToolNames(c) ==
    CASE c = "FinanceMCP" ->
           << <<"create_booking">>, <<"edit_booking">>, <<"issue_invoice">>,
              <<"apply_discount">>, <<"refund_payment">>,
              <<"reconcile_payouts">>, <<"ledger_export">>,
              <<"aging_report">>, <<"confirm_intake">> >>
      [] c = "AcademicMCP" ->
           << <<"create_programme">>, <<"create_course">>,
              <<"map_cefr_level">>, <<"schedule_class">>,
              <<"assign_teacher">>, <<"allocate_room">>,
              <<"register_lesson_template">>, <<"approve_lesson_plan">>,
              <<"link_cefr_descriptor">>, <<"publish_materials">> >>
      [] c = "AttendanceMCP" ->
           << <<"prepare_register">>, <<"record_attendance">>,
              <<"correct_attendance">>, <<"export_attendance">>,
              <<"visa_compliance_report">>, <<"compile_compliance_pack">>,
              <<"anonymise_dataset">>, <<"policy_check">> >>
      [] c = "StudentServicesMCP" ->
           << <<"register_host">>, <<"allocate_accommodation">>,
              <<"swap_accommodation">>, <<"export_placements">>,
              <<"issue_letter">>, <<"approve_deferral">>,
              <<"award_certificate">>, <<"track_visa_status">>,
              <<"record_pastoral_note">> >>
      [] c = "OperationsMCP" ->
           << <<"backup_db">>, <<"restore_snapshot">>,
              <<"record_observation">>, <<"assign_cpd">>,
              <<"export_quality_report">>, <<"bulk_email">>,
              <<"notify_stakeholders">>, <<"mail_merge_pdf">> >>
      [] c = "StudentMCP" ->
           << <<"view_timetable">>, <<"download_materials">>,
              <<"submit_homework">>, <<"view_grades">>, <<"ask_tutor">>,
              <<"track_progress">>, <<"attendance_summary">>,
              <<"request_letter">>, <<"raise_support_request">>,
              <<"view_invoice">> >>
      [] c = "BaseMCPServer" -> <<>>

Uri(p, leaf) == <<"mycastle://">> \o p \o <<"/", leaf>>

\* the uri arguments of the register_resource calls of _register_resources
ResourceUris(c) ==
    CASE c = "FinanceMCP" ->
           << Uri(<<"finance">>, "invoices"), Uri(<<"finance">>, "outstanding") >>
      [] c = "AcademicMCP" ->
           << Uri(<<"academic">>, "programmes"), Uri(<<"academic">>, "courses"),
              Uri(<<"academic">>, "cefr-descriptors") >>
      [] c = "AttendanceMCP" ->
           << Uri(<<"attendance">>, "registers"),
              Uri(<<"attendance">>, "compliance-status") >>
      [] c = "StudentServicesMCP" ->
           << Uri(STUDENT_SERVICES, "hosts"), Uri(STUDENT_SERVICES, "placements") >>
      [] c = "OperationsMCP" ->
           << Uri(<<"ops">>, "backups"), Uri(<<"ops">>, "observations") >>
      [] c = "StudentMCP" ->
           << Uri(<<"student">>, "timetable"), Uri(<<"student">>, "materials"),
              Uri(<<"student">>, "progress") >>
      [] c = "BaseMCPServer" -> <<>>

\* the name arguments of the register_prompt calls of _register_prompts
PromptNames(c) ==
    CASE c = "FinanceMCP"         -> << <<"finance", ":", "invoice_review">> >>
      [] c = "AcademicMCP"        -> << <<"academic", ":", "curriculum_design">> >>
      [] c = "AttendanceMCP"      -> << <<"attendance", ":", "absence_followup">> >>
      [] c = "StudentServicesMCP" -> << STUDENT_SERVICES \o <<":", "letter_template">> >>
      [] c = "OperationsMCP"      -> << <<"ops", ":", "observation_feedback">> >>
      [] c = "StudentMCP"         -> << <<"student", ":", "study_plan">> >>
      [] c = "BaseMCPServer"      -> <<>>

(* ---------------------------------------------------------------------- *)
(* Server instances.  An instance is <<class, n>>: the n-th object of the *)
(* class.  Every instance of a class has the class's name and scope.      *)
(* ---------------------------------------------------------------------- *)

\* how many of the six classes have objects in the runs over a small pool
NumClasses == 2
\* how many objects of the first class exist in those runs (a second one of
\* the same class is the duplicate that register_server rejects)
NumInstances == 2

ClassOf(id) == id[1]

\* one object of each of the six classes
AllPool == {<<c, 1>> : c \in Classes}

\* one object of each of the first NumClasses classes
ServerPool == {<<ClassOrder[i], 1>> : i \in {j \in 1..NumClasses : j <= Len(ClassOrder)}}

\* the same, and the further objects of the first class
HostPool == ServerPool \cup {<<ClassOrder[1], n>> : n \in 1..NumInstances}

\* the servers given to register_server: those of HostPool, and one that
\* has the name of the first and another scope prefix
RegistryPool == HostPool \cup {<<"BaseMCPServer", 1>>}

AllInstances == AllPool \cup HostPool \cup RegistryPool

None == <<>>

\* BaseMCPServer.__init__
NewServer == [tools |-> <<>>, resources |-> <<>>, prompts |-> <<>>,
              initialized |-> FALSE]

HasKey(d, k) == \E i \in 1..Len(d) : d[i].key = k

Lookup(d, k) == d[CHOOSE i \in 1..Len(d) : d[i].key = k]

\* a registry kept as a list: a second registration of a key adds a second entry
DictPutAppend(d, k, scope) == Append(d, [key |-> k, scope |-> scope])

\* d[k] = value on an insertion-ordered dict
DictPut(d, k, scope) ==
    IF HasKey(d, k)
    THEN [i \in 1..Len(d) |-> IF d[i].key = k THEN [key |-> k, scope |-> scope] ELSE d[i]]
    ELSE Append(d, [key |-> k, scope |-> scope])

\* a register_tool that stores the bare name
register_tool_noprefix(s, c, name, scope) ==
    [s EXCEPT !.tools = DictPut(@, name, IF scope = None THEN ServerScope(c) ELSE scope)]

register_tool(s, c, name, scope) ==
    LET tool_name  == IF Contains(name, ":") THEN name
                      ELSE SplitFirst(ServerScope(c), ":") \o <<":">> \o name
        tool_scope == IF scope = None THEN ServerScope(c) ELSE scope
    IN  [s EXCEPT !.tools = DictPut(@, tool_name, tool_scope)]

register_resource(s, c, uri, scope) ==
    [s EXCEPT !.resources =
        DictPut(@, uri, IF scope = None THEN ServerScope(c) ELSE scope)]

register_prompt(s, c, name, scope) ==
    [s EXCEPT !.prompts =
        DictPut(@, name, IF scope = None THEN ServerScope(c) ELSE scope)]

RECURSIVE RegisterTools(_, _, _)
RegisterTools(s, c, names) ==
    IF names = <<>> THEN s
    ELSE RegisterTools(register_tool(s, c, Head(names), None), c, Tail(names))

RECURSIVE RegisterResources(_, _, _)
RegisterResources(s, c, uris) ==
    IF uris = <<>> THEN s
    ELSE RegisterResources(register_resource(s, c, Head(uris), None), c, Tail(uris))

RECURSIVE RegisterPrompts(_, _, _)
RegisterPrompts(s, c, names) ==
    IF names = <<>> THEN s
    ELSE RegisterPrompts(register_prompt(s, c, Head(names), None), c, Tail(names))

\* <Class>.initialize
server_initialize(s, c) ==
    LET s1 == RegisterTools(s, c, ToolNames(c))
        s2 == RegisterResources(s1, c, ResourceUris(c))
        s3 == RegisterPrompts(s2, c, PromptNames(c))
    IN  [s3 EXCEPT !.initialized = TRUE]

\* a shutdown that also drops what initialize registered
server_shutdown_clears(s) == NewServer

\* <Class>.shutdown
server_shutdown(s) == [s EXCEPT !.initialized = FALSE]

tool_count(s) == Len(s.tools)

(* ---------------------------------------------------------------------- *)
(* BaseMCPServer calls (mcp/base.py).  raises says whether the handler,   *)
(* once invoked, raises.  The result names the handler that was invoked.  *)
(* ---------------------------------------------------------------------- *)

NoHandler == <<>>

CallResult(outcome, handler, isError) ==
    [outcome |-> outcome, handler |-> handler, isError |-> isError]

\* a call_tool that invokes the handler without the scope check
call_tool_nocheck(id, s, tool_name, scopes, raises) ==
    IF ~HasKey(s.tools, tool_name)
    THEN CallResult("ValueError", NoHandler, FALSE)
    ELSE CallResult("ok", <<id, "tool", tool_name>>, raises)

\* a call_tool that refuses to work on a server that is not initialized
call_tool_requires_initialized(id, s, tool_name, scopes, raises) ==
    IF ~s.initialized \/ ~HasKey(s.tools, tool_name)
    THEN CallResult("ValueError", NoHandler, FALSE)
    ELSE IF ~has_scope(scopes, Lookup(s.tools, tool_name).scope)
         THEN CallResult("PermissionError", NoHandler, FALSE)
         ELSE CallResult("ok", <<id, "tool", tool_name>>, raises)

\* BaseMCPServer.call_tool
call_tool(id, s, tool_name, scopes, raises) ==
    IF ~HasKey(s.tools, tool_name)
    THEN CallResult("ValueError", NoHandler, FALSE)
    ELSE LET tool == Lookup(s.tools, tool_name)
         IN  IF ~has_scope(scopes, tool.scope)
             THEN CallResult("PermissionError", NoHandler, FALSE)
             ELSE \* the handler runs; an exception becomes isError=True
                  CallResult("ok", <<id, "tool", tool_name>>, raises)

\* BaseMCPServer.fetch_resource
fetch_resource(id, s, uri, scopes, raises) ==
    IF ~HasKey(s.resources, uri)
    THEN CallResult("ValueError", NoHandler, FALSE)
    ELSE LET resource == Lookup(s.resources, uri)
         IN  IF ~has_scope(scopes, resource.scope)
             THEN CallResult("PermissionError", NoHandler, FALSE)
             ELSE \* the handler runs; an exception is logged and re-raised
                  CallResult(IF raises THEN "Exception" ELSE "ok",
                             <<id, "resource", uri>>, FALSE)

\* BaseMCPServer.get_prompt
get_prompt(id, s, name, scopes, raises) ==
    IF ~HasKey(s.prompts, name)
    THEN CallResult("ValueError", NoHandler, FALSE)
    ELSE LET prompt == Lookup(s.prompts, name)
         IN  IF ~has_scope(scopes, prompt.scope)
             THEN CallResult("PermissionError", NoHandler, FALSE)
             ELSE CallResult(IF raises THEN "Exception" ELSE "ok",
                             <<id, "prompt", name>>, FALSE)

RECURSIVE Filter(_, _)
\* [x for x in d.values() if context.has_scope(x.scope)]
Filter(d, scopes) ==
    IF d = <<>> THEN <<>>
    ELSE IF has_scope(scopes, Head(d).scope)
         THEN <<Head(d)>> \o Filter(Tail(d), scopes)
         ELSE Filter(Tail(d), scopes)

\* a listing that ignores the caller
get_tools_unfiltered(s, ctx) == s.tools

\* BaseMCPServer.get_tools; ctx is None or <<context>>
get_tools(s, ctx) ==
    IF ctx = None THEN s.tools ELSE Filter(s.tools, ctx[1].scopes)

\* BaseMCPServer.get_resources
get_resources(s, ctx) ==
    IF ctx = None THEN s.resources ELSE Filter(s.resources, ctx[1].scopes)

\* BaseMCPServer.get_prompts
get_prompts(s, ctx) ==
    IF ctx = None THEN s.prompts ELSE Filter(s.prompts, ctx[1].scopes)

(* ---------------------------------------------------------------------- *)
(* MCPHost (mcp/host.py).  servers is _servers, an insertion-ordered dict *)
(* from server name to instance; s2s is _scope_to_server.                 *)
(* ---------------------------------------------------------------------- *)

ServersHas(servers, name) == \E i \in 1..Len(servers) : servers[i].name = name

ServersGet(servers, name) ==
    servers[CHOOSE i \in 1..Len(servers) : servers[i].name = name].id

\* _servers[name] = server
ServersPut(servers, name, id) ==
    IF ServersHas(servers, name)
    THEN [i \in 1..Len(servers) |->
            IF servers[i].name = name THEN [name |-> name, id |-> id] ELSE servers[i]]
    ELSE Append(servers, [name |-> name, id |-> id])

HostState(servers, s2s) == [servers |-> servers, s2s |-> s2s]

\* a register_server that stores the server before it checks the prefix
register_server_overwrite(servers, s2s, id) ==
    LET scope_prefix == SplitFirst(ServerScope(ClassOf(id)), ":")
        name == ServerName(ClassOf(id))
    IN  [raised |-> scope_prefix \in DOMAIN s2s,
         servers |-> ServersPut(servers, name, id),
         s2s |-> [p \in DOMAIN s2s \cup {scope_prefix} |->
                     IF p = scope_prefix THEN name ELSE s2s[p]]]

\* MCPHost.register_server
register_server(servers, s2s, id) ==
    LET scope_prefix == SplitFirst(ServerScope(ClassOf(id)), ":")
        name == ServerName(ClassOf(id))
    IN  IF scope_prefix \in DOMAIN s2s
        THEN [raised |-> TRUE, servers |-> servers, s2s |-> s2s]
        ELSE [raised |-> FALSE,
              servers |-> ServersPut(servers, name, id),
              s2s |-> [p \in DOMAIN s2s \cup {scope_prefix} |->
                          IF p = scope_prefix THEN name ELSE s2s[p]]]

\* MCPHost._extract_scope_prefix
extract_scope_prefix(tool_name) ==
    IF ~Contains(tool_name, ":")
    THEN [raised |-> TRUE, prefix |-> <<>>]
    ELSE [raised |-> FALSE, prefix |-> SplitFirst(tool_name, ":")]

NoServer == <<>>

\* a lookup that falls back to the first registered server
get_server_for_scope_fallback(servers, s2s, scope_prefix) ==
    IF scope_prefix \notin DOMAIN s2s
    THEN IF servers = <<>> THEN [raised |-> TRUE, id |-> NoServer]
         ELSE [raised |-> FALSE, id |-> servers[1].id]
    ELSE [raised |-> FALSE, id |-> ServersGet(servers, s2s[scope_prefix])]

\* MCPHost._get_server_for_scope
get_server_for_scope(servers, s2s, scope_prefix) ==
    IF scope_prefix \notin DOMAIN s2s
    THEN [raised |-> TRUE, id |-> NoServer]
    ELSE [raised |-> FALSE, id |-> ServersGet(servers, s2s[scope_prefix])]

Routed(id, r) == [routedTo |-> id, outcome |-> r.outcome,
                  handler |-> r.handler, isError |-> r.isError]

NotRouted == [routedTo |-> NoServer, outcome |-> "ValueError",
              handler |-> NoHandler, isError |-> FALSE]

\* MCPHost.call_tool
host_call_tool(servers, s2s, sv, tool_name, scopes, raises) ==
    LET e == extract_scope_prefix(tool_name)
    IN  IF e.raised THEN NotRouted
        ELSE LET g == get_server_for_scope(servers, s2s, e.prefix)
             IN  IF g.raised THEN NotRouted
                 ELSE Routed(g.id, call_tool(g.id, sv[g.id], tool_name, scopes, raises))

\* MCPHost.fetch_resource
host_fetch_resource(servers, s2s, sv, uri, scopes, raises) ==
    IF ~StartsWith(uri, "mycastle://") THEN NotRouted
    ELSE LET parts0 == SplitFirst(RemoveAll(uri, "mycastle://"), "/")
             g == get_server_for_scope(servers, s2s, parts0)
         IN  IF g.raised THEN NotRouted
             ELSE Routed(g.id, fetch_resource(g.id, sv[g.id], uri, scopes, raises))

\* MCPHost.get_prompt
host_get_prompt(servers, s2s, sv, name, scopes, raises) ==
    LET e == extract_scope_prefix(name)
    IN  IF e.raised THEN NotRouted
        ELSE LET g == get_server_for_scope(servers, s2s, e.prefix)
             IN  IF g.raised THEN NotRouted
                 ELSE Routed(g.id, get_prompt(g.id, sv[g.id], name, scopes, raises))

RECURSIVE Gather(_, _, _, _)
\* the loop of get_capabilities over _servers.values(); kind selects the list
Gather(servers, sv, ctx, kind) ==
    IF servers = <<>> THEN <<>>
    ELSE LET s == sv[Head(servers).id]
             part == CASE kind = "tools"     -> get_tools(s, ctx)
                       [] kind = "resources" -> get_resources(s, ctx)
                       [] kind = "prompts"   -> get_prompts(s, ctx)
         IN  part \o Gather(Tail(servers), sv, ctx, kind)

\* the defaults of MCPHost.__init__
HostName == "mycastle-mcp-host"

HostVersion == "3.0.0"

\* a value tagged with its Python type
Str(v) == [type |-> "str", value |-> v]

ListOf(v) == [type |-> "list", value |-> v]

\* no capabilities: nothing was returned
EmptyCaps == [tools |-> <<>>, resources |-> <<>>, prompts |-> <<>>,
              servers |-> <<>>, name |-> "", version |-> ""]

\* the validation of CapabilitiesResponse.serverInfo, declared
\* Dict[str, str]: every value has to be a str
ValidServerInfo(serverInfo) ==
    \A k \in DOMAIN serverInfo : serverInfo[k].type = "str"

\* "<name> (<scope>)" for every server of _servers.values()
ServerEntries(servers) ==
    [i \in 1..Len(servers) |->
        <<servers[i].name, ServerScope(ClassOf(servers[i].id))>>]

\* a get_capabilities whose response is not validated
get_capabilities_unvalidated(servers, sv, ctx) ==
    [outcome |-> "ok",
     result  |-> [tools     |-> Gather(servers, sv, ctx, "tools"),
                  resources |-> Gather(servers, sv, ctx, "resources"),
                  prompts   |-> Gather(servers, sv, ctx, "prompts"),
                  servers   |-> ServerEntries(servers),
                  name      |-> HostName,
                  version   |-> HostVersion]]

\* MCPHost.get_capabilities: the lists are gathered, then the
\* CapabilitiesResponse is constructed, which validates its fields
get_capabilities(servers, sv, ctx) ==
    LET serverInfo == [name    |-> Str(HostName),
                       version |-> Str(HostVersion),
                       servers |-> ListOf(ServerEntries(servers))]
    IN  IF ~ValidServerInfo(serverInfo)
        THEN [outcome |-> "ValidationError", result |-> EmptyCaps]
        ELSE [outcome |-> "ok",
              result  |-> [tools     |-> Gather(servers, sv, ctx, "tools"),
                           resources |-> Gather(servers, sv, ctx, "resources"),
                           prompts   |-> Gather(servers, sv, ctx, "prompts"),
                           servers   |-> serverInfo.servers.value,
                           name      |-> serverInfo.name.value,
                           version   |-> serverInfo.version.value]]

RECURSIVE InitServers(_, _)
\* the loop of MCPHost.initialize
InitServers(servers, sv) ==
    IF servers = <<>> THEN sv
    ELSE LET id == Head(servers).id
         IN  InitServers(Tail(servers),
                         [sv EXCEPT ![id] = server_initialize(@, ClassOf(id))])

RECURSIVE ShutdownAll(_, _)
\* the loop of MCPHost.shutdown
ShutdownAll(servers, sv) ==
    IF servers = <<>> THEN sv
    ELSE ShutdownAll(Tail(servers),
                     [sv EXCEPT ![Head(servers).id] = server_shutdown(@)])

\* MCPHost.server_count
server_count(servers) == Len(servers)

RECURSIVE total_tool_count(_, _)
\* MCPHost.total_tool_count
total_tool_count(servers, sv) ==
    IF servers = <<>> THEN 0
    ELSE tool_count(sv[Head(servers).id]) + total_tool_count(Tail(servers), sv)

(* ---------------------------------------------------------------------- *)
(* Callers.  Two fixtures of tests/conftest.py, a context that holds one  *)
(* specific scope, and one that holds none.                               *)
(* ---------------------------------------------------------------------- *)

Ctx(user, role, scopes) == [user_id |-> user, role |-> role, scopes |-> scopes]

student_context == Ctx("test-student-id", "student", << W(<<"student">>) >>)

admin_context ==
    Ctx("test-admin-id", "admin",
        << W(<<"finance">>), W(<<"academic">>), W(<<"attendance">>),
           W(<<"compliance">>), W(STUDENT_SERVICES), W(<<"quality">>) >>)

specific_context ==
    Ctx("clerk", "admin_sales", << <<"finance", ":", "create_booking">> >>)

guest_context == Ctx("guest", "guest", <<>>)

TestContexts == {student_context, admin_context, specific_context}

\* the longest scope list of a caller asked of has_scope directly
MaxScopes == 2

ScopeUniverse ==
    { W(<<"student">>), W(STUDENT_SERVICES), W(<<"finance">>),
      <<"finance", ":", "create_booking">>, <<":", "*">> }

RECURSIVE SeqsUpTo(_, _)
SeqsUpTo(S, n) ==
    IF n = 0 THEN {<<>>}
    ELSE LET shorter == SeqsUpTo(S, n - 1)
         IN  shorter \cup {Append(q, x) : q \in shorter, x \in S}

AuthContexts == {Ctx("u", "guest", q) : q \in SeqsUpTo(ScopeUniverse, MaxScopes)}

\* scopes asked of has_scope directly
ProbeScopes ==
    { W(<<"student">>), W(STUDENT_SERVICES), W(<<"finance">>),
      <<"finance", ":", "create_booking">>, <<"finance", ":", "edit_booking">>,
      STUDENT_SERVICES \o <<":", "register_host">>,
      <<"student", ":", "view_grades">>, <<"finance">>,
      <<"finance", ":", "a", ":", "b">>, <<":", "*">>, <<>> }

\* names given to call_tool and get_prompt
ProbeNames ==
    { <<"finance", ":", "create_booking">>,
      <<"finance", ":", "invoice_review">>,
      <<"finance", ":", "no_such_tool">>,
      <<"student", ":", "view_timetable">>,
      <<"student", ":", "study_plan">>,
      STUDENT_SERVICES \o <<":", "register_host">>,
      <<"student", ":", "register_host">>,
      <<"quality", ":", "audit">>,
      <<"create_booking">> }

\* URIs given to fetch_resource
ProbeUris ==
    { Uri(<<"finance">>, "invoices"), Uri(<<"finance">>, "no_such"),
      Uri(<<"student">>, "timetable"), Uri(STUDENT_SERVICES, "hosts"),
      Uri(<<"quality">>, "audits"), <<"http://", "finance", "/", "invoices">> }

\* the record of the last operation and what it returned or raised
Last(op, target, arg, ctx, r, granted, status, hostOp, result) ==
    [op |-> op, target |-> target, arg |-> arg, ctx |-> ctx,
     outcome |-> r.outcome, routedTo |-> r.routedTo, handler |-> r.handler,
     isError |-> r.isError, granted |-> granted, status |-> status,
     hostOp |-> hostOp, result |-> result, creds |-> None,
     given |-> None, effect |-> "none", touched |-> {},
     now |-> 0, count |-> 0]

Plain(outcome) == [routedTo |-> NoServer, outcome |-> outcome,
                   handler |-> NoHandler, isError |-> FALSE]

NoLast == Last("none", NoServer, <<>>, None, Plain("ok"), FALSE, 0, "none", EmptyCaps)

(* ---------------------------------------------------------------------- *)
(* Actions on a server object used directly, as the server tests do       *)
(* ---------------------------------------------------------------------- *)

HostFrame == UNCHANGED <<hostServers, scopeToServer, hostInitialized,
                         pool, appPhase, appStateHost, db, calls>>

CheckScope(ctx, scope) ==
    /\ last' = Last("has_scope", NoServer, scope, <<ctx>>, Plain("ok"),
                    has_scope(ctx.scopes, scope), 0, "none", EmptyCaps)
    /\ UNCHANGED srv
    /\ HostFrame

ServerInitialize(id) ==
    /\ id \in pool
    /\ srv' = [srv EXCEPT ![id] = server_initialize(@, ClassOf(id))]
    /\ last' = Last("server.initialize", id, <<>>, None, Plain("ok"), FALSE, 0,
                    "none", EmptyCaps)
    /\ HostFrame

ServerShutdown(id) ==
    /\ id \in pool
    /\ srv' = [srv EXCEPT ![id] = server_shutdown(@)]
    /\ last' = Last("server.shutdown", id, <<>>, None, Plain("ok"), FALSE, 0,
                    "none", EmptyCaps)
    /\ HostFrame

ServerCallTool(id, name, ctx, raises) ==
    /\ id \in pool
    /\ last' = Last("server.call_tool", id, name, <<ctx>>,
                    Routed(id, call_tool(id, srv[id], name, ctx.scopes, raises)),
                    FALSE, 0, "none", EmptyCaps)
    /\ UNCHANGED srv
    /\ HostFrame

ServerFetchResource(id, uri, ctx, raises) ==
    /\ id \in pool
    /\ last' = Last("server.fetch_resource", id, uri, <<ctx>>,
                    Routed(id, fetch_resource(id, srv[id], uri, ctx.scopes, raises)),
                    FALSE, 0, "none", EmptyCaps)
    /\ UNCHANGED srv
    /\ HostFrame

ServerGetPrompt(id, name, ctx, raises) ==
    /\ id \in pool
    /\ last' = Last("server.get_prompt", id, name, <<ctx>>,
                    Routed(id, get_prompt(id, srv[id], name, ctx.scopes, raises)),
                    FALSE, 0, "none", EmptyCaps)
    /\ UNCHANGED srv
    /\ HostFrame

\* names and scopes given to register_tool directly
RegisterNames == { <<"create_booking">>, <<"finance", ":", "custom">>,
                   <<"other", ":", "tool">> }

RegisterScopes == { None, <<"finance", ":", "read">> }

RegisterTool(id, name, scope) ==
    /\ id \in pool
    /\ srv' = [srv EXCEPT ![id] = register_tool(@, ClassOf(id), name, scope)]
    /\ last' = [Last("register_tool", id, name, None, Plain("ok"), FALSE, 0,
                     "none", EmptyCaps) EXCEPT !.given = scope]
    /\ HostFrame

(* ---------------------------------------------------------------------- *)
(* Actions on a hand-built MCPHost, as tests/test_all_servers.py does     *)
(* ---------------------------------------------------------------------- *)

AppFrame == UNCHANGED <<pool, appPhase, appStateHost, db, calls>>

RegisterServer(id) ==
    /\ id \in pool
    /\ LET r == register_server(hostServers, scopeToServer, id)
       IN  /\ hostServers' = r.servers
           /\ scopeToServer' = r.s2s
           /\ last' = Last("register_server", id, <<>>, None,
                           Plain(IF r.raised THEN "ValueError" ELSE "ok"),
                           FALSE, 0, "none", EmptyCaps)
    /\ UNCHANGED <<srv, hostInitialized>>
    /\ AppFrame

HostInitialize ==
    /\ srv' = InitServers(hostServers, srv)
    /\ hostInitialized' = TRUE
    /\ last' = Last("host.initialize", NoServer, <<>>, None, Plain("ok"), FALSE, 0,
                    "none", EmptyCaps)
    /\ UNCHANGED <<hostServers, scopeToServer>>
    /\ AppFrame

\* MCPHost.initialize when the initialize of the k-th server raises: the
\* servers before it are initialized, the exception leaves the loop and
\* the host's flag is not assigned
HostInitializeRaises(k) ==
    /\ k \in 1..Len(hostServers)
    /\ srv' = InitServers(SubSeq(hostServers, 1, k - 1), srv)
    /\ last' = Last("host.initialize", NoServer, <<>>, None, Plain("Exception"),
                    FALSE, 0, "none", EmptyCaps)
    /\ UNCHANGED <<hostServers, scopeToServer, hostInitialized>>
    /\ AppFrame

HostShutdown ==
    /\ srv' = ShutdownAll(hostServers, srv)
    /\ hostInitialized' = FALSE
    /\ last' = Last("host.shutdown", NoServer, <<>>, None, Plain("ok"), FALSE, 0,
                    "none", EmptyCaps)
    /\ UNCHANGED <<hostServers, scopeToServer>>
    /\ AppFrame

HostUnchanged == UNCHANGED <<srv, hostServers, scopeToServer, hostInitialized>>

HostCallTool(name, ctx, raises) ==
    /\ last' = Last("host.call_tool", NoServer, name, <<ctx>>,
                    host_call_tool(hostServers, scopeToServer, srv, name,
                                   ctx.scopes, raises),
                    FALSE, 0, "call_tool", EmptyCaps)
    /\ HostUnchanged
    /\ AppFrame

HostFetchResource(uri, ctx, raises) ==
    /\ last' = Last("host.fetch_resource", NoServer, uri, <<ctx>>,
                    host_fetch_resource(hostServers, scopeToServer, srv, uri,
                                        ctx.scopes, raises),
                    FALSE, 0, "fetch_resource", EmptyCaps)
    /\ HostUnchanged
    /\ AppFrame

HostGetPrompt(name, ctx, raises) ==
    /\ last' = Last("host.get_prompt", NoServer, name, <<ctx>>,
                    host_get_prompt(hostServers, scopeToServer, srv, name,
                                    ctx.scopes, raises),
                    FALSE, 0, "get_prompt", EmptyCaps)
    /\ HostUnchanged
    /\ AppFrame

HostGetCapabilities(ctx) ==
    /\ LET g == get_capabilities(hostServers, srv, ctx)
       IN  last' = Last("host.get_capabilities", NoServer, <<>>, ctx,
                        Plain(g.outcome), FALSE, 0, "get_capabilities", g.result)
    /\ HostUnchanged
    /\ AppFrame

(* ---------------------------------------------------------------------- *)
(* Specifications                                                         *)
(* ---------------------------------------------------------------------- *)

\* no rows, and no call in flight
NoDb == [host |-> [capacity |-> 0, current_occupancy |-> 0],
         allocations |-> 0, faults |-> FALSE,
         booking |-> <<>>, invoice |-> {}, payment |-> {}]

NoCalls == <<>>

\* the objects after construction, over the rows d and the calls c
InitState(p, phase, d, c) ==
    /\ srv = [id \in AllInstances |-> NewServer]
    /\ hostServers = <<>>
    /\ scopeToServer = <<>>
    /\ hostInitialized = FALSE
    /\ pool = p
    /\ appPhase = phase
    /\ appStateHost = FALSE
    /\ last = NoLast
    /\ db = d
    /\ calls = c

InitObjects(p, phase) == InitState(p, phase, NoDb, NoCalls)

\* no application: the objects are used directly
InitWith(p) == InitObjects(p, "none")

\* has_scope asked directly
InitAuth == InitWith({})

NextAuth == \E ctx \in AuthContexts, scope \in ProbeScopes : CheckScope(ctx, scope)

SpecAuth == InitAuth /\ [][NextAuth]_vars

\* server objects used on their own
InitServer == InitWith(ServerPool)

NextServer ==
    \/ \E id \in pool : ServerInitialize(id)
    \/ \E id \in pool : ServerShutdown(id)
    \/ \E id \in pool, name \in ProbeNames, ctx \in TestContexts,
          raises \in BOOLEAN : ServerCallTool(id, name, ctx, raises)
    \/ \E id \in pool, uri \in ProbeUris, ctx \in TestContexts,
          raises \in BOOLEAN : ServerFetchResource(id, uri, ctx, raises)
    \/ \E id \in pool, name \in ProbeNames, ctx \in TestContexts,
          raises \in BOOLEAN : ServerGetPrompt(id, name, ctx, raises)

SpecServer == InitServer /\ [][NextServer]_vars

\* one server object on which register_tool is called directly
InitRegister == \E id \in ServerPool : InitWith({id})

NextRegister ==
    \/ \E id \in pool, name \in RegisterNames, scope \in RegisterScopes :
          RegisterTool(id, name, scope)
    \/ \E id \in pool : ServerInitialize(id)
    \/ \E id \in pool : ServerShutdown(id)

SpecRegister == InitRegister /\ [][NextRegister]_vars

\* a hand-built host over a small pool
InitHost == InitWith(HostPool)

NextHost ==
    \/ \E id \in pool : RegisterServer(id)
    \/ HostInitialize
    \/ \E k \in 1..Len(hostServers) : HostInitializeRaises(k)
    \/ HostShutdown
    \/ \E name \in ProbeNames, ctx \in TestContexts, raises \in BOOLEAN :
          HostCallTool(name, ctx, raises)
    \/ \E uri \in ProbeUris, ctx \in TestContexts, raises \in BOOLEAN :
          HostFetchResource(uri, ctx, raises)
    \/ \E name \in ProbeNames, ctx \in TestContexts, raises \in BOOLEAN :
          HostGetPrompt(name, ctx, raises)
    \/ \E ctx \in {None} \cup {<<c>> : c \in TestContexts} : HostGetCapabilities(ctx)

SpecHost == InitHost /\ [][NextHost]_vars

\* a hand-built host given servers of any name and scope
InitRegistry == InitWith(RegistryPool)

NextRegistry ==
    \/ \E id \in pool : RegisterServer(id)
    \/ HostInitialize
    \/ \E name \in ProbeNames, ctx \in {admin_context} :
          HostCallTool(name, ctx, FALSE)

SpecRegistry == InitRegistry /\ [][NextRegistry]_vars

\* the servers list of tests/test_all_servers.py
TestServers == <<"FinanceMCP", "AcademicMCP", "AttendanceMCP",
                 "StudentServicesMCP", "OperationsMCP", "StudentMCP">>

Registered(servers, id) == \E i \in 1..Len(servers) : servers[i].id = id

\* "for server in servers: host.register_server(server)": a server is
\* registered once those before it in the list are
InListOrder(id) ==
    \A i, j \in 1..Len(TestServers) :
        (i < j /\ TestServers[j] = ClassOf(id))
            => Registered(hostServers, <<TestServers[i], 1>>)

\* a hand-built host over one object of each of the six classes, registered
\* in the order of the tests' list; a registration may be repeated
InitAll == InitWith(AllPool)

NextAll ==
    \/ \E id \in pool : InListOrder(id) /\ RegisterServer(id)
    \/ HostInitialize
    \/ HostShutdown
    \/ \E ctx \in {None} \cup {<<c>> : c \in TestContexts} : HostGetCapabilities(ctx)

SpecAll == InitAll /\ [][NextAll]_vars

(* ---------------------------------------------------------------------- *)
(* Authentication (core/auth.py)                                          *)
(* ---------------------------------------------------------------------- *)

\* AuthService._generate_scopes_from_role
generate_scopes_from_role(role) ==
    CASE role = "super_admin" ->
           << W(<<"identity">>), W(<<"finance">>), W(<<"academic">>),
              W(<<"attendance">>), W(<<"compliance">>), W(STUDENT_SERVICES),
              W(<<"ops">>), W(<<"quality">>), W(<<"teacher">>), W(<<"student">>) >>
      [] role = "admin" ->
           << W(<<"finance">>), W(<<"academic">>), W(<<"attendance">>),
              W(<<"compliance">>), W(STUDENT_SERVICES), W(<<"quality">>) >>
      [] role = "admin_dos" ->
           << W(<<"academic">>), W(<<"teacher">>), W(<<"quality">>) >>
      [] role = "admin_reception" ->
           << W(STUDENT_SERVICES), W(<<"attendance">>) >>
      [] role = "admin_student_operations" ->
           << W(STUDENT_SERVICES), W(<<"compliance">>) >>
      [] role = "admin_sales" -> << W(<<"finance">>) >>
      [] role = "teacher" -> << W(<<"teacher">>) >>
      [] role = "teacher_dos" -> << W(<<"teacher">>), W(<<"academic">>) >>
      [] role = "student" -> << W(<<"student">>) >>
      [] OTHER -> <<>>

Row(role, scopes) == [role_scope |-> role, scopes |-> scopes]

\* the rows of the "user" table, by id
UserTable ==
    [u \in {"u_super", "u_admin", "u_student", "u_guest", "u_marketing",
            "u_custom", "u_janitor"} |->
        CASE u = "u_super"     -> Row("super_admin", <<>>)
          [] u = "u_admin"     -> Row("admin", <<>>)
          [] u = "u_student"   -> Row("student", <<>>)
          [] u = "u_guest"     -> Row("guest", <<>>)
          [] u = "u_marketing" -> Row("admin_marketing", <<>>)
          [] u = "u_custom"    -> Row("student", << W(<<"finance">>) >>)
          [] u = "u_janitor"   -> Row("janitor", << W(<<"finance">>) >>)]

\* the subjects a token can name: the users with a row, and one without
Subjects == DOMAIN UserTable \cup {"u_ghost"}

Token(kind, sub) == [kind |-> kind, sub |-> sub]

Tokens == {Token("valid", u) : u \in Subjects}
            \cup {Token("expired", "u_admin"), Token("invalid", "u_admin"),
                  Token("nosub", "")}

AuthFailed(status) == [status |-> status, ctx |-> None]

\* a get_user_context that takes the role's default scopes whatever the row holds
get_user_context_defaults(token, dbFails) ==
    IF token.kind \in {"expired", "invalid", "nosub"} THEN AuthFailed(401)
    ELSE IF dbFails THEN AuthFailed(500)
    ELSE IF token.sub \notin DOMAIN UserTable THEN AuthFailed(404)
    ELSE LET user_data == UserTable[token.sub]
         IN  IF user_data.role_scope \notin UserRole THEN AuthFailed(500)
             ELSE [status |-> 0,
                   ctx |-> << Ctx(token.sub, user_data.role_scope,
                                  generate_scopes_from_role(user_data.role_scope)) >>]

\* AuthService.get_user_context (verify_jwt included)
get_user_context(token, dbFails) ==
    IF token.kind \in {"expired", "invalid"} THEN AuthFailed(401)
    ELSE IF token.kind = "nosub" THEN AuthFailed(401)
    ELSE IF dbFails THEN AuthFailed(500)
    ELSE IF token.sub \notin DOMAIN UserTable THEN AuthFailed(404)
    ELSE LET user_data == UserTable[token.sub]
             scopes == IF user_data.scopes = <<>>
                       THEN generate_scopes_from_role(user_data.role_scope)
                       ELSE user_data.scopes
         IN  \* UserRole(user_data["role_scope"]) raises ValueError for a
             \* string that is no member; "except Exception" answers 500
             IF user_data.role_scope \notin UserRole THEN AuthFailed(500)
             ELSE [status |-> 0,
                   ctx |-> << Ctx(token.sub, user_data.role_scope, scopes) >>]

\* get_current_user behind Security(HTTPBearer()): no credentials, 403
get_current_user(creds, dbFails) ==
    IF creds = None THEN AuthFailed(403)
    ELSE get_user_context(creds[1], dbFails)

(* ---------------------------------------------------------------------- *)
(* The /api/mcp endpoints (api/mcp.py)                                    *)
(* ---------------------------------------------------------------------- *)

Endpoints == {"capabilities", "tools", "resources", "prompts", "servers"}

\* endpoints whose "servers" listing is open to anyone
EndpointsWithAuth_open_servers(endpoint) == endpoint # "servers"

\* whether the endpoint declares context = Depends(get_current_user)
EndpointsWithAuth(endpoint) == endpoint \in Endpoints

\* an exception mapping that answers 500 for every exception
status_of_all500(outcome) ==
    IF outcome = "ok" THEN 200 ELSE 500

\* the except clauses of call_tool, get_resource and get_prompt
status_of(outcome) ==
    CASE outcome = "ok"              -> 200
      [] outcome = "ValueError"      -> 404
      [] outcome = "PermissionError" -> 403
      [] OTHER                       -> 500

Response(op, creds, arg, ctx, r, status, hostOp, result) ==
    [Last(op, NoServer, arg, ctx, r, FALSE, status, hostOp, result)
        EXCEPT !.creds = creds]

\* one request to /api/mcp/<endpoint>; stateHost says whether app.state
\* holds an mcp_host
handle_request(endpoint, creds, arg, raises, dbFails, stateHost, servers, s2s, sv) ==
    LET auth == IF EndpointsWithAuth(endpoint) THEN get_current_user(creds, dbFails)
                ELSE [status |-> 0, ctx |-> << guest_context >>]
        scopes == auth.ctx[1].scopes
    IN  IF auth.status # 0
        THEN Response(endpoint, creds, arg, None, Plain("HTTPException"), auth.status,
                      "none", EmptyCaps)
        ELSE IF ~stateHost
        THEN \* get_mcp_host
             Response(endpoint, creds, arg, auth.ctx, Plain("HTTPException"), 503,
                      "none", EmptyCaps)
        ELSE CASE endpoint = "capabilities" ->
                    \* no except clause: an exception reaches the
                    \* application's handler for Exception, which answers 500
                    LET g == get_capabilities(servers, sv, auth.ctx)
                    IN  Response(endpoint, creds, arg, auth.ctx, Plain(g.outcome),
                                 IF g.outcome = "ok" THEN 200 ELSE 500,
                                 "get_capabilities", g.result)
               [] endpoint = "tools" ->
                    LET r == host_call_tool(servers, s2s, sv, arg, scopes, raises)
                    IN  Response(endpoint, creds, arg, auth.ctx, r, status_of(r.outcome),
                                 "call_tool", EmptyCaps)
               [] endpoint = "resources" ->
                    LET r == host_fetch_resource(servers, s2s, sv, arg, scopes, raises)
                    IN  Response(endpoint, creds, arg, auth.ctx, r, status_of(r.outcome),
                                 "fetch_resource", EmptyCaps)
               [] endpoint = "prompts" ->
                    LET r == host_get_prompt(servers, s2s, sv, arg, scopes, raises)
                    IN  Response(endpoint, creds, arg, auth.ctx, r, status_of(r.outcome),
                                 "get_prompt", EmptyCaps)
               [] endpoint = "servers" ->
                    Response(endpoint, creds, arg, auth.ctx, Plain("ok"), 200,
                             "list_servers",
                             [EmptyCaps EXCEPT
                                 !.tools = Gather(servers, sv, auth.ctx, "tools"),
                                 !.servers = ServerEntries(servers)])

(* ---------------------------------------------------------------------- *)
(* The application (main.py)                                              *)
(* ---------------------------------------------------------------------- *)

\* the servers lifespan constructs and registers, in order
LifespanServers == <<"FinanceMCP", "AcademicMCP">>

RECURSIVE RegisterEach(_, _)
\* the register_server calls of lifespan; h is <<servers, s2s>> and a
\* ValueError ends the startup
RegisterEach(h, classes) ==
    IF classes = <<>> THEN [raised |-> FALSE, servers |-> h.servers, s2s |-> h.s2s]
    ELSE LET r == register_server(h.servers, h.s2s, <<Head(classes), 1>>)
         IN  IF r.raised THEN r
             ELSE RegisterEach(HostState(r.servers, r.s2s), Tail(classes))

\* lifespan up to the yield
LifespanStartup(dbOk) ==
    /\ appPhase \in {"idle", "stopped"}
    /\ IF ~dbOk
       THEN \* init_db raises: the startup fails before a host exists
            /\ appPhase' = "failed"
            /\ UNCHANGED <<srv, hostServers, scopeToServer, hostInitialized,
                           appStateHost>>
       ELSE LET fresh == [id \in AllInstances |-> NewServer]
                r == RegisterEach(HostState(<<>>, <<>>), LifespanServers)
            IN  /\ ~r.raised
                /\ hostServers' = r.servers
                /\ scopeToServer' = r.s2s
                /\ srv' = InitServers(r.servers, fresh)
                /\ hostInitialized' = TRUE
                /\ appStateHost' = TRUE
                /\ appPhase' = "serving"
    /\ last' = [NoLast EXCEPT !.op = "lifespan.startup"]
    /\ UNCHANGED <<pool, db, calls>>

\* lifespan after the yield
LifespanShutdown ==
    /\ appPhase = "serving"
    /\ srv' = ShutdownAll(hostServers, srv)
    /\ hostInitialized' = FALSE
    /\ appPhase' = "stopped"
    /\ last' = [NoLast EXCEPT !.op = "lifespan.shutdown"]
    /\ UNCHANGED <<hostServers, scopeToServer, pool, appStateHost, db, calls>>

\* names and URIs sent to the endpoints
RequestArgs(endpoint) ==
    CASE endpoint = "tools" ->
           { <<"finance", ":", "create_booking">>, <<"finance", ":", "no_such_tool">>,
             <<"academic", ":", "create_course">>, <<"student", ":", "view_timetable">>,
             <<"ops", ":", "backup_db">>, <<"create_booking">> }
      [] endpoint = "resources" ->
           { Uri(<<"finance">>, "invoices"), Uri(<<"student">>, "timetable"),
             <<"http://", "finance", "/", "invoices">> }
      [] endpoint = "prompts" ->
           { <<"finance", ":", "invoice_review">>, <<"student", ":", "study_plan">>,
             <<"invoice_review">> }
      [] OTHER -> { <<>> }

\* a request served by the application; without lifespan (a TestClient
\* that is not entered) app.state holds no host
Request(endpoint, creds, arg, raises, dbFails) ==
    /\ appPhase \in {"idle", "serving", "stopped"}
    /\ last' = handle_request(endpoint, creds, arg, raises, dbFails, appStateHost,
                              hostServers, scopeToServer, srv)
    /\ UNCHANGED <<srv, hostServers, scopeToServer, hostInitialized, pool,
                   appPhase, appStateHost, db, calls>>

\* a readiness check that looks only for the host
readiness_check_hostonly(stateHost, initialized) ==
    IF stateHost THEN 200 ELSE 503

\* GET /health/ready: stateHost says whether app.state holds an mcp_host,
\* initialized is its _initialized flag
readiness_check(stateHost, initialized) ==
    IF stateHost /\ initialized THEN 200 ELSE 503

\* GET /health/live
liveness_check == 200

HealthReady ==
    /\ appPhase \in {"idle", "serving", "stopped"}
    /\ last' = [NoLast EXCEPT !.op = "health.ready",
                              !.status = readiness_check(appStateHost, hostInitialized)]
    /\ UNCHANGED <<srv, hostServers, scopeToServer, hostInitialized, pool,
                   appPhase, appStateHost, db, calls>>

HealthLive ==
    /\ appPhase \in {"idle", "serving", "stopped"}
    /\ last' = [NoLast EXCEPT !.op = "health.live", !.status = liveness_check]
    /\ UNCHANGED <<srv, hostServers, scopeToServer, hostInitialized, pool,
                   appPhase, appStateHost, db, calls>>

InitApp == InitObjects(AllPool, "idle")

NextApp ==
    \/ \E dbOk \in BOOLEAN : LifespanStartup(dbOk)
    \/ LifespanShutdown
    \/ \E endpoint \in Endpoints, creds \in {None} \cup {<<t>> : t \in Tokens},
          raises \in BOOLEAN, dbFails \in BOOLEAN :
          \E arg \in RequestArgs(endpoint) :
              Request(endpoint, creds, arg, raises, dbFails)
    \/ HealthReady
    \/ HealthLive

SpecApp == InitApp /\ [][NextApp]_vars

(* ---------------------------------------------------------------------- *)
(* StudentServicesMCP._allocate_accommodation.  The handler makes three   *)
(* requests to the hosted database, select, insert and update, without a  *)
(* transaction; each request is one step, and the calls of several        *)
(* requests to the application take their steps in any order.             *)
(* ---------------------------------------------------------------------- *)

\* how many allocate calls can be in progress at once
NumCalls == 2
\* the largest capacity of the host family
MaxCapacity == 2
\* no call starts once this many allocation rows exist
MaxAllocations == 3

CallIds == 1..NumCalls

STUDENT_SERVICES_SERVER == <<"StudentServicesMCP", 1>>

ALLOCATE == STUDENT_SERVICES \o <<":", "allocate_accommodation">>

IdleCall == [pc |-> "idle", read |-> 0, result |-> "none"]

Done(result) == [pc |-> "done", read |-> 0, result |-> result]

AllocLast == [NoLast EXCEPT !.op = "allocate_accommodation",
                            !.target = STUDENT_SERVICES_SERVER]

AllocFrame == UNCHANGED <<srv, hostServers, scopeToServer, hostInitialized,
                          pool, appPhase, appStateHost>>

\* call_tool finds the tool, the caller holds its scope, and the handler
\* starts: the select of the host row and the capacity check
AllocSelect(c, ctx, ok) ==
    /\ calls[c].pc \in {"idle", "done"}
    /\ db.allocations < MaxAllocations
    /\ call_tool(STUDENT_SERVICES_SERVER, srv[STUDENT_SERVICES_SERVER], ALLOCATE,
                 ctx.scopes, FALSE).handler # NoHandler
    /\ IF ~ok
       THEN \* the request raises; the handler returns success: False
            /\ calls' = [calls EXCEPT ![c] = Done("error")]
            /\ db' = [db EXCEPT !.faults = TRUE]
       ELSE IF db.host.current_occupancy >= db.host.capacity
       THEN /\ calls' = [calls EXCEPT ![c] = Done("full")]
            /\ UNCHANGED db
       ELSE /\ calls' = [calls EXCEPT ![c] =
                            [pc |-> "selected", read |-> db.host.current_occupancy,
                             result |-> "none"]]
            /\ UNCHANGED db
    /\ last' = AllocLast
    /\ AllocFrame

\* the insert of the allocation row
AllocInsert(c, ok) ==
    /\ calls[c].pc = "selected"
    /\ IF ok
       THEN /\ db' = [db EXCEPT !.allocations = @ + 1]
            /\ calls' = [calls EXCEPT ![c].pc = "inserted"]
       ELSE /\ db' = [db EXCEPT !.faults = TRUE]
            /\ calls' = [calls EXCEPT ![c] = Done("error")]
    /\ last' = AllocLast
    /\ AllocFrame

\* the update of the host row with the occupancy read by the select, plus one
AllocUpdate(c, ok) ==
    /\ calls[c].pc = "inserted"
    /\ IF ok
       THEN /\ db' = [db EXCEPT !.host.current_occupancy = calls[c].read + 1]
            /\ calls' = [calls EXCEPT ![c] = Done("success")]
       ELSE /\ db' = [db EXCEPT !.faults = TRUE]
            /\ calls' = [calls EXCEPT ![c] = Done("error")]
    /\ last' = AllocLast
    /\ AllocFrame

\* a host family with room, no allocation yet, and no call in progress
InitAlloc ==
    \E capacity \in 1..MaxCapacity :
        InitState({STUDENT_SERVICES_SERVER}, "none",
                  [NoDb EXCEPT !.host = [capacity |-> capacity, current_occupancy |-> 0]],
                  [c \in CallIds |-> IdleCall])

NextAlloc ==
    \/ \E id \in pool : ServerInitialize(id)
    \/ \E c \in CallIds, ok \in BOOLEAN : AllocSelect(c, admin_context, ok)
    \/ \E c \in CallIds, ok \in BOOLEAN : AllocInsert(c, ok)
    \/ \E c \in CallIds, ok \in BOOLEAN : AllocUpdate(c, ok)

SpecAlloc == InitAlloc /\ [][NextAlloc]_vars

(* ---------------------------------------------------------------------- *)
(* FinanceMCP handlers over the tables booking, invoice and payment.  ok  *)
(* says whether the handler's database request succeeds.  A handler       *)
(* returns what it did to the rows, the rows its requests matched, and    *)
(* whether it raised: every handler body is one try block whose except    *)
(* clause returns {"success": False, ...}.                                *)
(* ---------------------------------------------------------------------- *)

\* no create_booking is made once this many booking rows exist
MaxBookings == 2

Tenants == {"t1", "t2"}

FINANCE_SERVER == <<"FinanceMCP", 1>>

\* AuthContext with its tenant_id
TenantCtx(user, tenant, role, scopes) ==
    [user_id |-> user, tenant_id |-> tenant, role |-> role, scopes |-> scopes]

\* two finance clerks of different tenants with the same scopes, and a student
FinanceCallers ==
    {TenantCtx(t, t, "admin_sales", << W(<<"finance">>) >>) : t \in Tenants}
        \cup {TenantCtx("pupil", "t1", "student", << W(<<"student">>) >>)}

RowRef(table, id, tenant) == [table |-> table, id |-> id, tenant_id |-> tenant]

\* one invoice and one unreconciled payment per tenant, no booking
FinanceDb ==
    [NoDb EXCEPT
        !.invoice = {[id |-> t, tenant_id |-> t] : t \in Tenants},
        !.payment = {[id |-> t, tenant_id |-> t, reconciled |-> FALSE] : t \in Tenants}]

Handled(success, d, touched) ==
    [raised |-> FALSE, success |-> success, db |-> d, touched |-> touched]

\* FinanceMCP._create_booking
create_booking(d, ctx, arg, ok) ==
    IF ~ok THEN Handled(FALSE, d, {})
    ELSE Handled(TRUE,
                 [d EXCEPT !.booking =
                     Append(@, [tenant_id |-> ctx.tenant_id, weeks |-> arg.weeks])],
                 {RowRef("booking", Len(d.booking) + 1, ctx.tenant_id)})

\* FinanceMCP._edit_booking: update ... eq("id", booking_id).eq("tenant_id", ...)
edit_booking(d, ctx, arg, ok) ==
    LET matched == {i \in 1..Len(d.booking) :
                      i = arg.booking_id /\ d.booking[i].tenant_id = ctx.tenant_id}
    IN  IF ~ok \/ matched = {} THEN Handled(FALSE, d, {})
        ELSE Handled(TRUE,
                     [d EXCEPT !.booking =
                         [i \in 1..Len(@) |->
                             IF i \in matched THEN [@[i] EXCEPT !.weeks = arg.weeks]
                             ELSE @[i]]],
                     {RowRef("booking", i, d.booking[i].tenant_id) : i \in matched})

\* FinanceMCP._ledger_export and _aging_report: select on invoice by date,
\* without a tenant filter
ledger_export(d, ctx, arg, ok) ==
    IF ~ok THEN Handled(FALSE, d, {})
    ELSE Handled(TRUE, d, {RowRef("invoice", r.id, r.tenant_id) : r \in d.invoice})

\* FinanceMCP._reconcile_payouts: select on payment by reconciled and date,
\* then an update of every payment that has an issued invoice
reconcile_payouts(d, ctx, arg, ok) ==
    LET payments == {r \in d.payment : ~r.reconciled}
    IN  IF ~ok THEN Handled(FALSE, d, {})
        ELSE Handled(TRUE,
                     [d EXCEPT !.payment =
                         {[r EXCEPT !.reconciled = TRUE] : r \in @}],
                     {RowRef("payment", r.id, r.tenant_id) : r \in payments})

\* FinanceMCP._get_invoices_resource: select on invoice eq("tenant_id", ...);
\* a failed request is returned as {"error": ...}
get_invoices_resource(d, ctx, ok) ==
    IF ~ok THEN Handled(FALSE, d, {})
    ELSE Handled(TRUE, d,
                 {RowRef("invoice", r.id, r.tenant_id) :
                     r \in {x \in d.invoice : x.tenant_id = ctx.tenant_id}})

FinanceTools == { <<"finance", ":", "create_booking">>,
                  <<"finance", ":", "edit_booking">>,
                  <<"finance", ":", "ledger_export">>,
                  <<"finance", ":", "reconcile_payouts">> }

\* the handler register_tool stored for the name
finance_handler(name, d, ctx, arg, ok) ==
    CASE name = <<"finance", ":", "create_booking">>    -> create_booking(d, ctx, arg, ok)
      [] name = <<"finance", ":", "edit_booking">>      -> edit_booking(d, ctx, arg, ok)
      [] name = <<"finance", ":", "ledger_export">>     -> ledger_export(d, ctx, arg, ok)
      [] name = <<"finance", ":", "reconcile_payouts">> -> reconcile_payouts(d, ctx, arg, ok)

BookingArgs == [booking_id : 1..MaxBookings, weeks : {1, 2}]

FinanceFrame == UNCHANGED <<srv, hostServers, scopeToServer, hostInitialized,
                            pool, appPhase, appStateHost, calls>>

\* call_tool on the finance server, the handler included
FinanceCallTool(name, ctx, arg, ok) ==
    /\ Len(db.booking) < MaxBookings \/ name # <<"finance", ":", "create_booking">>
    /\ LET h == finance_handler(name, db, ctx, arg, ok)
           r == call_tool(FINANCE_SERVER, srv[FINANCE_SERVER], name, ctx.scopes, h.raised)
           ran == r.handler # NoHandler
       IN  /\ db' = IF ran THEN h.db ELSE db
           /\ last' = [Last("finance.call_tool", FINANCE_SERVER, name, <<ctx>>,
                            Routed(FINANCE_SERVER, r), FALSE, 0, "none", EmptyCaps)
                          EXCEPT !.effect = IF ~ran THEN "none"
                                            ELSE IF h.success THEN "done" ELSE "failed",
                                 !.touched = IF ran THEN h.touched ELSE {}]
    /\ FinanceFrame

\* fetch_resource on the finance server for mycastle://finance/invoices
FinanceFetchResource(ctx, ok) ==
    /\ LET uri == Uri(<<"finance">>, "invoices")
           h == get_invoices_resource(db, ctx, ok)
           r == fetch_resource(FINANCE_SERVER, srv[FINANCE_SERVER], uri, ctx.scopes,
                               h.raised)
           ran == r.handler # NoHandler
       IN  last' = [Last("finance.fetch_resource", FINANCE_SERVER, uri, <<ctx>>,
                         Routed(FINANCE_SERVER, r), FALSE, 0, "none", EmptyCaps)
                       EXCEPT !.effect = IF ~ran THEN "none"
                                         ELSE IF h.success THEN "done" ELSE "failed",
                              !.touched = IF ran THEN h.touched ELSE {}]
    /\ UNCHANGED db
    /\ FinanceFrame

InitFinance == InitState({FINANCE_SERVER}, "none", FinanceDb, NoCalls)

NextFinance ==
    \/ \E id \in pool : ServerInitialize(id)
    \/ \E name \in FinanceTools, ctx \in FinanceCallers, arg \in BookingArgs,
          ok \in BOOLEAN : FinanceCallTool(name, ctx, arg, ok)
    \/ \E ctx \in FinanceCallers, ok \in BOOLEAN : FinanceFetchResource(ctx, ok)

SpecFinance == InitFinance /\ [][NextFinance]_vars

(* ---------------------------------------------------------------------- *)
(* OperationsMCP handlers _backup_db and _restore_snapshot over the       *)
(* tables backup and restore_log.  The arguments are a dict: a key that   *)
(* was not given is not in its domain.  failAt is the database request of *)
(* the handler that fails, 0 for none.                                    *)
(* ---------------------------------------------------------------------- *)

\* no backup_db is made once this many backup rows exist
MaxBackups == 2

OPERATIONS_SERVER == <<"OperationsMCP", 1>>

BACKUP_DB == <<"ops", ":", "backup_db">>

RESTORE_SNAPSHOT == <<"ops", ":", "restore_snapshot">>

\* dict.get(key, default)
Get(args, key, default) == IF key \in DOMAIN args THEN args[key] ELSE default

OpsDb == [backup |-> <<>>, restore_log |-> <<>>]

\* a _backup_db without the role check
backup_db_anyrole(d, ctx, arg, failAt) ==
    IF "backup_type" \notin DOMAIN arg \/ failAt = 1
    THEN Handled(FALSE, d, {})
    ELSE LET id == Len(d.backup) + 1
             row == [status |-> "in_progress", initiated_by |-> ctx.user_id,
                     tenant_id |-> ctx.tenant_id]
             inserted == [d EXCEPT !.backup = Append(@, row)]
         IN  IF failAt = 2
             THEN Handled(FALSE, inserted, {RowRef("backup", id, ctx.tenant_id)})
             ELSE Handled(TRUE,
                          [inserted EXCEPT !.backup[id].status = "completed"],
                          {RowRef("backup", id, ctx.tenant_id)})

\* OperationsMCP._backup_db: the role check, the insert of the backup row,
\* the update of its status
backup_db(d, ctx, arg, failAt) ==
    IF ctx.role # "super_admin"
    THEN \* PermissionError, caught by the handler's except clause
         Handled(FALSE, d, {})
    ELSE IF "backup_type" \notin DOMAIN arg
    THEN \* KeyError
         Handled(FALSE, d, {})
    ELSE IF failAt = 1
    THEN Handled(FALSE, d, {})
    ELSE LET id == Len(d.backup) + 1
             row == [status |-> "in_progress", initiated_by |-> ctx.user_id,
                     tenant_id |-> ctx.tenant_id]
             inserted == [d EXCEPT !.backup = Append(@, row)]
         IN  IF failAt = 2
             THEN Handled(FALSE, inserted, {RowRef("backup", id, ctx.tenant_id)})
             ELSE Handled(TRUE,
                          [inserted EXCEPT !.backup[id].status = "completed"],
                          {RowRef("backup", id, ctx.tenant_id)})

\* OperationsMCP._restore_snapshot: the role check, the confirm check, the
\* select of the snapshot, the insert of the restore_log row
restore_snapshot(d, ctx, arg, failAt) ==
    IF ctx.role # "super_admin"
    THEN Handled(FALSE, d, {})
    ELSE IF ~Get(arg, "confirm", FALSE)
    THEN Handled(FALSE, d, {})
    ELSE IF "snapshot_id" \notin DOMAIN arg
    THEN Handled(FALSE, d, {})
    ELSE IF failAt = 1 \/ arg.snapshot_id \notin 1..Len(d.backup)
    THEN \* the select raised, or "Snapshot not found"
         Handled(FALSE, d, {})
    ELSE IF failAt = 2
    THEN Handled(FALSE, d, {})
    ELSE Handled(TRUE,
                 [d EXCEPT !.restore_log =
                     Append(@, [snapshot_id |-> arg.snapshot_id,
                                restored_by |-> ctx.user_id,
                                tenant_id |-> ctx.tenant_id])],
                 {RowRef("restore_log", Len(d.restore_log) + 1, ctx.tenant_id)})

OpsTools == {BACKUP_DB, RESTORE_SNAPSHOT}

\* the handler register_tool stored for the name
ops_handler(name, d, ctx, arg, failAt) ==
    CASE name = BACKUP_DB        -> backup_db(d, ctx, arg, failAt)
      [] name = RESTORE_SNAPSHOT -> restore_snapshot(d, ctx, arg, failAt)

\* the arguments the input schemas of the two tools admit, and the same
\* with a key left out
OpsArgs ==
    {[backup_type |-> "full"], [description |-> "nightly"]}
        \cup [snapshot_id : {1, 2}, confirm : BOOLEAN]
        \cup {[snapshot_id |-> 1], [confirm |-> TRUE]}

\* a super_admin and an admin with the ops scope, an admin with more than
\* the ops scope, and a super_admin without it
OpsCallers ==
    { TenantCtx("root", "t1", "super_admin", << W(<<"ops">>) >>),
      TenantCtx("boss", "t1", "admin", << W(<<"ops">>) >>),
      TenantCtx("boss", "t1", "admin", << W(<<"ops">>), W(<<"finance">>) >>),
      TenantCtx("root", "t1", "super_admin", << W(<<"student">>) >>) }

\* call_tool on the operations server, the handler included
OpsCallTool(name, ctx, arg, failAt) ==
    /\ Len(db.backup) < MaxBackups \/ name # BACKUP_DB
    /\ Len(db.restore_log) < MaxBackups \/ name # RESTORE_SNAPSHOT
    /\ LET h == ops_handler(name, db, ctx, arg, failAt)
           r == call_tool(OPERATIONS_SERVER, srv[OPERATIONS_SERVER], name,
                          ctx.scopes, h.raised)
           ran == r.handler # NoHandler
       IN  /\ db' = IF ran THEN h.db ELSE db
           /\ last' = [Last("ops.call_tool", OPERATIONS_SERVER, name, <<ctx>>,
                            Routed(OPERATIONS_SERVER, r), FALSE, 0, "none", EmptyCaps)
                          EXCEPT !.given = arg,
                                 !.effect = IF ~ran THEN "none"
                                            ELSE IF h.success THEN "done" ELSE "failed",
                                 !.touched = IF ran THEN h.touched ELSE {}]
    /\ FinanceFrame

InitOps == InitState({OPERATIONS_SERVER}, "none", OpsDb, NoCalls)

NextOps ==
    \/ \E id \in pool : ServerInitialize(id)
    \/ \E name \in OpsTools, ctx \in OpsCallers, arg \in OpsArgs, failAt \in 0..2 :
          OpsCallTool(name, ctx, arg, failAt)

SpecOps == InitOps /\ [][NextOps]_vars

(* ---------------------------------------------------------------------- *)
(* AttendanceMCP handlers _correct_attendance and _anonymise_dataset over *)
(* the tables attendance and attendance_correction.  Times are hours; now *)
(* is what datetime.utcnow() returns to the call.  failAt is the database *)
(* request of the handler that fails, 0 for none.                         *)
(* ---------------------------------------------------------------------- *)

\* no correction is made once this many attendance_correction rows exist
MaxCorrections == 2
\* no record is anonymised that has been anonymised this many times
MaxAnonymised == 1

ATTENDANCE_SERVER == <<"AttendanceMCP", 1>>

CORRECT_ATTENDANCE == <<"attendance", ":", "correct_attendance">>

ANONYMISE_DATASET == <<"attendance", ":", "anonymise_dataset">>

\* a column that holds no value
NULL == 0 - 1

\* hours_elapsed > 48
EditWindow == 48

\* hashlib.sha256(f"anon_{student_id}").hexdigest()[:16]
AnonymousId(student_id) == <<"sha256:", "anon_">> \o student_id

\* how many times the student_id has been replaced
Anonymised(student_id) == Len(student_id) \div 2

\* a record recorded at hour 0, one recorded at hour 48 whose
\* correction_count holds no value, and an entry of a prepared register
\* that was never recorded
AttendanceDb ==
    [attendance |->
        << [student_id |-> <<"s1">>, status |-> "absent", recorded_at |-> 0,
            corrected |-> FALSE, anonymized |-> FALSE,
            correction_count |-> 0],
           [student_id |-> <<"s2">>, status |-> "absent", recorded_at |-> 48,
            corrected |-> FALSE, anonymized |-> FALSE,
            correction_count |-> NULL],
           [student_id |-> <<"s3">>, status |-> "pending", recorded_at |-> NULL,
            corrected |-> FALSE, anonymized |-> FALSE,
            correction_count |-> 0] >>,
     attendance_correction |-> <<>>]

Reported(success, d, touched, count) ==
    [raised |-> FALSE, success |-> success, db |-> d, touched |-> touched,
     count |-> count]

\* a _correct_attendance that updates the record before it inserts the audit row
correct_attendance_update_first(d, ctx, arg, now, failAt) ==
    LET id == arg.attendance_id
    IN  IF failAt = 1 \/ id \notin 1..Len(d.attendance)
        THEN Reported(FALSE, d, {}, 0)
        ELSE LET current == d.attendance[id]
                 updated == [d EXCEPT !.attendance[id] =
                                [@ EXCEPT !.status = arg.new_status,
                                          !.corrected = TRUE,
                                          !.correction_count = current.correction_count + 1]]
             IN  IF current.recorded_at = NULL THEN Reported(FALSE, d, {}, 0)
                 ELSE IF now - current.recorded_at > EditWindow
                         /\ ctx.role \notin {"super_admin", "admin"}
                 THEN Reported(FALSE, d, {}, 0)
                 ELSE IF "new_status" \notin DOMAIN arg
                         \/ current.correction_count = NULL \/ failAt = 2
                 THEN Reported(FALSE, d, {}, 0)
                 ELSE IF failAt = 3 THEN Reported(FALSE, updated, {}, 0)
                 ELSE Reported(TRUE,
                               [updated EXCEPT !.attendance_correction =
                                   Append(@, [attendance_id |-> id,
                                              old_status |-> current.status,
                                              new_status |-> arg.new_status])],
                               {}, 0)

\* AttendanceMCP._correct_attendance: the select of the record, the 48-hour
\* check, the insert of the audit row, the update of the record
correct_attendance(d, ctx, arg, now, failAt) ==
    LET id == arg.attendance_id
    IN  IF failAt = 1 \/ id \notin 1..Len(d.attendance)
        THEN \* the select raised, or "Attendance record not found"
             Reported(FALSE, d, {}, 0)
        ELSE LET current == d.attendance[id]
                 audited == [d EXCEPT !.attendance_correction =
                                Append(@, [attendance_id |-> id,
                                           old_status |-> current.status,
                                           new_status |-> arg.new_status])]
             IN  IF current.recorded_at = NULL
                 THEN \* datetime.fromisoformat(None) raises TypeError
                      Reported(FALSE, d, {}, 0)
                 ELSE IF now - current.recorded_at > EditWindow
                         /\ ctx.role \notin {"super_admin", "admin"}
                 THEN Reported(FALSE, d, {}, 0)
                 ELSE IF "new_status" \notin DOMAIN arg
                 THEN \* KeyError while audit_data is built
                      Reported(FALSE, d, {}, 0)
                 ELSE IF failAt = 2
                 THEN Reported(FALSE, d, {}, 0)
                 ELSE IF current.correction_count = NULL
                 THEN \* None + 1 raises TypeError while update_data is built
                      Reported(FALSE, audited, {}, 0)
                 ELSE IF failAt = 3
                 THEN Reported(FALSE, audited, {}, 0)
                 ELSE Reported(TRUE,
                               [audited EXCEPT !.attendance[id] =
                                   [@ EXCEPT !.status = arg.new_status,
                                             !.corrected = TRUE,
                                             !.correction_count = current.correction_count + 1]],
                               {}, 0)

\* .lt("recorded_at", before_date): a record without recorded_at matches nothing
RecordsBefore(d, before_date) ==
    {i \in 1..Len(d.attendance) :
        /\ d.attendance[i].recorded_at # NULL
        /\ d.attendance[i].recorded_at < before_date}

\* the for loop of _anonymise_dataset over the records of the select in the
\* order of their ids; the request numbered failAt raises
RECURSIVE AnonymiseLoop(_, _, _, _)
AnonymiseLoop(d, records, request, failAt) ==
    IF records = {} THEN [db |-> d, raised |-> FALSE]
    ELSE IF request = failAt THEN [db |-> d, raised |-> TRUE]
    ELSE LET i == CHOOSE r \in records : \A q \in records : r <= q
         IN  AnonymiseLoop([d EXCEPT !.attendance[i].student_id = AnonymousId(@),
                                     !.attendance[i].anonymized = TRUE],
                           records \ {i}, request + 1, failAt)

\* an _anonymise_dataset whose dry_run is false when it is not given
anonymise_dataset_default_false(d, ctx, arg, failAt) ==
    IF "before_date" \notin DOMAIN arg \/ failAt = 1
    THEN Reported(FALSE, d, {}, 0)
    ELSE LET records_to_anonymize == RecordsBefore(d, arg.before_date)
             loop == AnonymiseLoop(d, records_to_anonymize, 2, failAt)
         IN  IF Get(arg, "dry_run", FALSE)
             THEN Reported(TRUE, d, records_to_anonymize,
                           Cardinality(records_to_anonymize))
             ELSE IF loop.raised
             THEN Reported(FALSE, loop.db, records_to_anonymize, 0)
             ELSE Reported(TRUE, loop.db, records_to_anonymize,
                           Cardinality(records_to_anonymize))

\* AttendanceMCP._anonymise_dataset: the select of the records before
\* before_date, the dry-run report, the update of each record
anonymise_dataset(d, ctx, arg, failAt) ==
    IF "before_date" \notin DOMAIN arg \/ failAt = 1
    THEN \* KeyError, or the select raised
         Reported(FALSE, d, {}, 0)
    ELSE LET records_to_anonymize == RecordsBefore(d, arg.before_date)
             loop == AnonymiseLoop(d, records_to_anonymize, 2, failAt)
         IN  IF Get(arg, "dry_run", TRUE)
             THEN Reported(TRUE, d, records_to_anonymize,
                           Cardinality(records_to_anonymize))
             ELSE IF loop.raised
             THEN Reported(FALSE, loop.db, records_to_anonymize, 0)
             ELSE Reported(TRUE, loop.db, records_to_anonymize,
                           Cardinality(records_to_anonymize))

AttendanceTools == {CORRECT_ATTENDANCE, ANONYMISE_DATASET}

\* the handler register_tool stored for the name
attendance_handler(name, d, ctx, arg, now, failAt) ==
    CASE name = CORRECT_ATTENDANCE -> correct_attendance(d, ctx, arg, now, failAt)
      [] name = ANONYMISE_DATASET  -> anonymise_dataset(d, ctx, arg, failAt)

\* the arguments the input schemas admit, and the same with a key left out;
\* record 4 does not exist
AttendanceArgs(name) ==
    CASE name = CORRECT_ATTENDANCE ->
           [attendance_id : 1..4, new_status : {"late"}]
               \cup {[attendance_id |-> 1, new_status |-> "present"],
                     [attendance_id |-> 1]}
      [] name = ANONYMISE_DATASET ->
           [before_date : {0, 24, 72}, dry_run : BOOLEAN]
               \cup [before_date : {24, 72}]
               \cup {[dry_run |-> FALSE]}

\* a teacher, an admin and a director of studies, all with attendance:*
AttendanceCallers ==
    {TenantCtx(role, "t1", role, << W(<<"attendance">>) >>) :
        role \in {"teacher", "admin", "admin_dos"}}

\* the hours at which calls are made
CallHours == {48, 96}

\* call_tool on the attendance server, the handler included
AttendanceCallTool(name, ctx, arg, now, failAt) ==
    /\ Len(db.attendance_correction) < MaxCorrections \/ name # CORRECT_ATTENDANCE
    /\ \/ name # ANONYMISE_DATASET
       \/ Get(arg, "dry_run", TRUE)
       \/ \A i \in 1..Len(db.attendance) :
             Anonymised(db.attendance[i].student_id) < MaxAnonymised
    /\ LET h == attendance_handler(name, db, ctx, arg, now, failAt)
           r == call_tool(ATTENDANCE_SERVER, srv[ATTENDANCE_SERVER], name,
                          ctx.scopes, h.raised)
           ran == r.handler # NoHandler
       IN  /\ db' = IF ran THEN h.db ELSE db
           /\ last' = [Last("attendance.call_tool", ATTENDANCE_SERVER, name, <<ctx>>,
                            Routed(ATTENDANCE_SERVER, r), FALSE, 0, "none", EmptyCaps)
                          EXCEPT !.given = arg,
                                 !.now = now,
                                 !.effect = IF ~ran THEN "none"
                                            ELSE IF h.success THEN "done" ELSE "failed",
                                 !.touched = IF ran THEN h.touched ELSE {},
                                 !.count = IF ran THEN h.count ELSE 0]
    /\ FinanceFrame

InitAttendance == InitState({ATTENDANCE_SERVER}, "none", AttendanceDb, NoCalls)

\* corrections by every caller at every hour
NextCorrect ==
    \/ \E id \in pool : ServerInitialize(id)
    \/ \E ctx \in AttendanceCallers, now \in CallHours, failAt \in 0..3,
          arg \in AttendanceArgs(CORRECT_ATTENDANCE) :
          AttendanceCallTool(CORRECT_ATTENDANCE, ctx, arg, now, failAt)

SpecCorrect == InitAttendance /\ [][NextCorrect]_vars

\* anonymisations by every caller at every hour
NextAnonymise ==
    \/ \E id \in pool : ServerInitialize(id)
    \/ \E ctx \in AttendanceCallers, now \in CallHours, failAt \in 0..3,
          arg \in AttendanceArgs(ANONYMISE_DATASET) :
          AttendanceCallTool(ANONYMISE_DATASET, ctx, arg, now, failAt)

SpecAnonymise == InitAttendance /\ [][NextAnonymise]_vars

(* ---------------------------------------------------------------------- *)
(* StudentServicesMCP handlers _allocate_accommodation and                *)
(* _swap_accommodation, one call after the other, over the tables host    *)
(* and accommodation_allocation.  failAt is the database request of the   *)
(* handler that fails, 0 for none.                                        *)
(* ---------------------------------------------------------------------- *)

SWAP == STUDENT_SERVICES \o <<":", "swap_accommodation">>

HostIds == {1, 2}

\* a host family of one place and one of up to MaxCapacity places
StayDb(capacity) ==
    [host |-> [h \in HostIds |->
                  [capacity |-> IF h = 1 THEN 1 ELSE capacity,
                   current_occupancy |-> 0]],
     accommodation_allocation |-> <<>>]

\* an _allocate_accommodation without the capacity check
allocate_accommodation_unchecked(d, ctx, arg, failAt) ==
    IF failAt = 1 \/ arg.host_id \notin DOMAIN d.host \/ failAt = 2
    THEN Handled(FALSE, d, {})
    ELSE LET host == d.host[arg.host_id]
             inserted == [d EXCEPT !.accommodation_allocation =
                             Append(@, [student_id |-> arg.student_id,
                                        host_id |-> arg.host_id,
                                        status |-> "active"])]
         IN  IF failAt = 3 THEN Handled(FALSE, inserted, {})
             ELSE Handled(TRUE,
                          [inserted EXCEPT !.host[arg.host_id].current_occupancy =
                              host.current_occupancy + 1],
                          {})

\* StudentServicesMCP._allocate_accommodation: the select of the host, the
\* capacity check, the insert of the allocation, the update of the host
allocate_accommodation(d, ctx, arg, failAt) ==
    IF failAt = 1 \/ arg.host_id \notin DOMAIN d.host
    THEN \* the select raised, or "Host not found"
         Handled(FALSE, d, {})
    ELSE LET host == d.host[arg.host_id]
             inserted == [d EXCEPT !.accommodation_allocation =
                             Append(@, [student_id |-> arg.student_id,
                                        host_id |-> arg.host_id,
                                        status |-> "active"])]
         IN  IF host.current_occupancy >= host.capacity
             THEN \* "Host is at full capacity"
                  Handled(FALSE, d, {})
             ELSE IF failAt = 2
             THEN Handled(FALSE, d, {})
             ELSE IF failAt = 3
             THEN Handled(FALSE, inserted, {})
             ELSE Handled(TRUE,
                          [inserted EXCEPT !.host[arg.host_id].current_occupancy =
                              host.current_occupancy + 1],
                          {})

\* what the update of the old host with
\* {"current_occupancy": self.supabase.rpc("decrement", {"x": 1})} does: the
\* value is a request builder, not a number
DecrementOutcomes == {"raises", "decremented"}

\* StudentServicesMCP._swap_accommodation: the select of the allocation, the
\* update that ends it, the update of the old host, and
\* _allocate_accommodation for the new host, whose result is not looked at
swap_accommodation(d, ctx, arg, failAt, decrement) ==
    IF failAt = 1 \/ arg.allocation_id \notin 1..Len(d.accommodation_allocation)
    THEN \* the select raised, or "Allocation not found"
         Handled(FALSE, d, {})
    ELSE LET current == d.accommodation_allocation[arg.allocation_id]
             ended == [d EXCEPT
                          !.accommodation_allocation[arg.allocation_id].status = "ended"]
             left == [ended EXCEPT !.host[current.host_id].current_occupancy =
                         IF @ > 0 THEN @ - 1 ELSE 0]
             new_allocation ==
                 allocate_accommodation(left, ctx,
                                        [student_id |-> current.student_id,
                                         host_id |-> arg.new_host_id],
                                        IF failAt > 3 THEN failAt - 3 ELSE 0)
         IN  IF failAt = 2 THEN Handled(FALSE, d, {})
             ELSE IF failAt = 3 \/ decrement = "raises"
             THEN Handled(FALSE, ended, {})
             ELSE Handled(TRUE, new_allocation.db, {})

Students == {"s1", "s2"}

\* host 3 does not exist
AllocateArgs == [student_id : Students, host_id : HostIds \cup {3}]

SwapArgs == [allocation_id : 1..MaxAllocations, new_host_id : HostIds \cup {3}]

StayCallTool(name, arg, h) ==
    /\ Len(db.accommodation_allocation) < MaxAllocations
    /\ LET r == call_tool(STUDENT_SERVICES_SERVER, srv[STUDENT_SERVICES_SERVER],
                          name, admin_context.scopes, h.raised)
           ran == r.handler # NoHandler
       IN  /\ db' = IF ran THEN h.db ELSE db
           /\ last' = [Last("student_services.call_tool", STUDENT_SERVICES_SERVER,
                            name, <<admin_context>>,
                            Routed(STUDENT_SERVICES_SERVER, r), FALSE, 0, "none",
                            EmptyCaps)
                          EXCEPT !.given = arg,
                                 !.effect = IF ~ran THEN "none"
                                            ELSE IF h.success THEN "done" ELSE "failed"]
    /\ FinanceFrame

\* call_tool for student_services:allocate_accommodation, the handler included
StayAllocate(arg, failAt) ==
    StayCallTool(ALLOCATE, arg, allocate_accommodation(db, admin_context, arg, failAt))

\* call_tool for student_services:swap_accommodation, the handler included
StaySwap(arg, failAt, decrement) ==
    StayCallTool(SWAP, arg, swap_accommodation(db, admin_context, arg, failAt, decrement))

InitStay ==
    \E capacity \in 1..MaxCapacity :
        InitState({STUDENT_SERVICES_SERVER}, "none", StayDb(capacity), NoCalls)

\* allocations only, one call after the other
NextAllocate ==
    \/ \E id \in pool : ServerInitialize(id)
    \/ \E arg \in AllocateArgs, failAt \in 0..3 : StayAllocate(arg, failAt)

SpecAllocate == InitStay /\ [][NextAllocate]_vars

\* allocations and swaps, one call after the other
NextStay ==
    \/ \E id \in pool : ServerInitialize(id)
    \/ \E arg \in AllocateArgs, failAt \in 0..3 : StayAllocate(arg, failAt)
    \/ \E arg \in SwapArgs, failAt \in 0..6, decrement \in DecrementOutcomes :
          StaySwap(arg, failAt, decrement)

SpecStay == InitStay /\ [][NextStay]_vars

(* ---------------------------------------------------------------------- *)
(* TransformService.execute_transformation and extract_sheet_data.  A     *)
(* sheet is the sequence of its rows, a row the sequence of its cells;    *)
(* row 1 is the header, and the cell of data row i holds i, its           *)
(* spreadsheet row number.  An empty cell and None are both <<>>.         *)
(* ---------------------------------------------------------------------- *)

\* sheets of up to this many rows are uploaded, and a few longer ones
MaxSheetRows == 40

\* extract_sheet_data(..., max_rows=10000) in execute_transformation
TRANSFORM_MAX_ROWS == 10000

\* "rows": rows[:100]
PREVIEW_ROWS == 100

\* the sheet of the uploaded file: n rows, the header included
Sheet(n) == [i \in 1..n |-> IF i = 1 THEN << <<"id">> >> ELSE << <<i>> >>]

\* the sizes of the uploaded sheets, around the two limits as well
SheetSizes ==
    0..MaxSheetRows
        \cup {PREVIEW_ROWS, PREVIEW_ROWS + 1, PREVIEW_ROWS + 2,
              TRANSFORM_MAX_ROWS, TRANSFORM_MAX_ROWS + 1}

\* s[:n]
Take(s, n) == SubSeq(s, 1, IF n < Len(s) THEN n ELSE Len(s))

\* list.index: 0 stands for ValueError
IndexOf(s, x) ==
    IF \E i \in 1..Len(s) : s[i] = x
    THEN CHOOSE i \in 1..Len(s) : s[i] = x /\ \A j \in 1..(i - 1) : s[j] # x
    ELSE 0

\* while headers and not headers[-1]: headers.pop()
RECURSIVE CleanHeaders(_)
CleanHeaders(headers) ==
    IF headers # <<>> /\ headers[Len(headers)] = <<>>
    THEN CleanHeaders(SubSeq(headers, 1, Len(headers) - 1))
    ELSE headers

\* xlsx_utils.extract_sheet_data; raised stands for XLSXParseError
extract_sheet_data(sheet, max_rows) ==
    LET data == Take(sheet, max_rows)
    IN  IF data = <<>>
        THEN [raised |-> TRUE, columns |-> <<>>, rows |-> <<>>, total_rows |-> 0]
        ELSE LET headers == CleanHeaders(data[1])
                 rows == [i \in 1..(Len(data) - 1) |->
                             IF Len(headers) < Len(data[1])
                             THEN Take(data[i + 1], Len(headers))
                             ELSE data[i + 1]]
             IN  [raised |-> FALSE, columns |-> headers,
                  rows |-> Take(rows, PREVIEW_ROWS), total_rows |-> Len(rows)]

\* the column_mapping of the request
ColumnMapping == << [xlsx_col |-> <<"id">>, supabase_col |-> "id"] >>

NoResponse == [success |-> FALSE, total_rows |-> 0, inserted_count |-> 0,
               failed_count |-> 0, records |-> <<>>]

\* TransformService.execute_transformation: the records built from the rows
\* extract_sheet_data returned, the batch insert, and the response
execute_transformation(sheet, column_mapping, insertOk) ==
    LET sheet_data == extract_sheet_data(sheet, TRANSFORM_MAX_ROWS)
        columns == sheet_data.columns
        rows == sheet_data.rows
        col_idx == IndexOf(columns, column_mapping[1].xlsx_col)
        records == [row_idx \in 1..Len(rows) |->
                       [id |-> IF col_idx # 0 /\ col_idx <= Len(rows[row_idx])
                               THEN rows[row_idx][col_idx] ELSE <<>>,
                        source_row |-> row_idx + 1]]
        failed == records # <<>> /\ ~insertOk
    IN  IF sheet_data.raised
        THEN [outcome |-> "Exception", response |-> NoResponse]
        ELSE [outcome |-> "ok",
              response |-> [success |-> ~failed,
                            total_rows |-> Len(rows),
                            inserted_count |-> IF failed THEN 0 ELSE Len(records),
                            failed_count |-> IF failed THEN Len(records) ELSE 0,
                            records |-> records]]

TransformDb == [sheet_rows |-> 0, uploaded |-> FALSE, table |-> <<>>]

TransformFrame == UNCHANGED <<srv, hostServers, scopeToServer, hostInitialized,
                              pool, appPhase, appStateHost, calls>>

\* TransformService.save_uploaded_file: the file is in the upload directory
SaveUploadedFile(n) ==
    /\ db' = [sheet_rows |-> n, uploaded |-> TRUE, table |-> <<>>]
    /\ last' = [NoLast EXCEPT !.op = "save_uploaded_file"]
    /\ TransformFrame

ExecuteTransformation(insertOk) ==
    /\ db.uploaded
    /\ LET r == execute_transformation(Sheet(db.sheet_rows), ColumnMapping, insertOk)
       IN  /\ db' = [db EXCEPT !.table =
                        IF r.outcome = "ok" /\ r.response.success
                        THEN r.response.records ELSE @]
           /\ last' = [NoLast EXCEPT !.op = "execute_transformation",
                                     !.outcome = r.outcome,
                                     !.result = r.response]
    /\ TransformFrame

InitTransform == InitState({}, "none", TransformDb, NoCalls)

NextTransform ==
    \/ \E n \in SheetSizes : SaveUploadedFile(n)
    \/ \E insertOk \in BOOLEAN : ExecuteTransformation(insertOk)

SpecTransform == InitTransform /\ [][NextTransform]_vars

(* ---------------------------------------------------------------------- *)
(* Properties                                                             *)
(* ---------------------------------------------------------------------- *)

ServerOps == {"server.call_tool", "server.fetch_resource", "server.get_prompt"}

KindOf(op) ==
    CASE op \in {"server.call_tool", "host.call_tool", "tools"}              -> "tool"
      [] op \in {"server.fetch_resource", "host.fetch_resource", "resources"} -> "resource"
      [] op \in {"server.get_prompt", "host.get_prompt", "prompts"}           -> "prompt"

RegistryOf(s, kind) ==
    CASE kind = "tool"     -> s.tools
      [] kind = "resource" -> s.resources
      [] kind = "prompt"   -> s.prompts

\* C1: least privilege per call.  For a call_tool, fetch_resource or
\* get_prompt of a server on an item it has registered, the item's handler
\* is invoked only if the caller's has_scope(item.scope) is true; otherwise
\* the call raises PermissionError and no handler is invoked.  A caller
\* holding only 'student:*' never executes a finance or student_services
\* item.
C1_LeastPrivilege ==
    last.op \in ServerOps =>
        LET reg == RegistryOf(srv[last.target], KindOf(last.op))
            scopes == last.ctx[1].scopes
        IN  /\ HasKey(reg, last.arg) =>
                LET item == Lookup(reg, last.arg)
                IN  /\ last.handler # NoHandler => has_scope(scopes, item.scope)
                    /\ ~has_scope(scopes, item.scope) =>
                          /\ last.outcome = "PermissionError"
                          /\ last.handler = NoHandler
            /\ last.handler # NoHandler =>
                  /\ HasKey(reg, last.arg)
                  /\ last.handler = <<last.target, KindOf(last.op), last.arg>>
            /\ (/\ scopes = << W(<<"student">>) >>
                /\ ClassOf(last.target) \in {"FinanceMCP", "StudentServicesMCP"})
                  => last.handler = NoHandler

\* a student is refused a registered student_services tool
C1_Witness ==
    /\ last.op = "server.call_tool"
    /\ last.target = <<"StudentServicesMCP", 1>>
    /\ last.arg = STUDENT_SERVICES \o <<":", "register_host">>
    /\ HasKey(srv[last.target].tools, last.arg)
    /\ last.ctx = <<student_context>>
    /\ last.outcome = "PermissionError"
    /\ last.handler = NoHandler

\* the index of the first ":" of s, Len(s) + 1 without one
FirstColon(s) ==
    IF \E i \in 1..Len(s) : s[i] = ":"
    THEN CHOOSE i \in 1..Len(s) : s[i] = ":" /\ \A j \in 1..(i - 1) : s[j] # ":"
    ELSE Len(s) + 1

\* C3: has_scope(s) is true if and only if s is in the caller's scope list
\* or '<p>:*' is, p being the part of s before its first ':'.  'student:*'
\* grants no scope whose prefix is 'student_services', and a caller holding
\* only 'p:x' is granted neither 'p:*' nor 'p:y'.
C3_HasScope ==
    last.op = "has_scope" =>
        LET held == SeqToSet(last.ctx[1].scopes)
            s == last.arg
            p == SubSeq(s, 1, FirstColon(s) - 1)
        IN  /\ last.granted <=> (s \in held \/ (p \o <<":", "*">>) \in held)
            /\ (held = {W(<<"student">>)} /\ p = STUDENT_SERVICES) => ~last.granted
            /\ (held = {<<"finance", ":", "create_booking">>}
                  /\ s \in {W(<<"finance">>), <<"finance", ":", "edit_booking">>})
                  => ~last.granted

\* 'student:*' and 'finance:*' held, a student_services scope asked and refused
C3_Witness ==
    /\ last.op = "has_scope"
    /\ last.ctx[1].scopes = << W(<<"student">>), W(<<"finance">>) >>
    /\ last.arg = STUDENT_SERVICES \o <<":", "register_host">>
    /\ ~last.granted

\* the entries of one kind registered on the servers of the host
RegisteredItems(kind) ==
    UNION { SeqToSet(RegistryOf(srv[hostServers[i].id], kind)) :
              i \in 1..Len(hostServers) }

CapsOf(result, kind) ==
    CASE kind = "tool"     -> result.tools
      [] kind = "resource" -> result.resources
      [] kind = "prompt"   -> result.prompts

\* C2: get_capabilities(context) returns exactly the tools, resources and
\* prompts, over all registered servers, whose scope satisfies
\* context.has_scope: none that the caller lacks is listed, none that the
\* caller holds is left out or listed twice, and with context None every
\* registered item is listed.
C2_Capabilities ==
    last.op = "host.get_capabilities" =>
        /\ last.outcome = "ok"
        /\ \A kind \in {"tool", "resource", "prompt"} :
              LET listed == CapsOf(last.result, kind)
                  expected == IF last.ctx = None THEN RegisteredItems(kind)
                              ELSE {e \in RegisteredItems(kind) :
                                      has_scope(last.ctx[1].scopes, e.scope)}
              IN  /\ SeqToSet(listed) = expected
                  /\ Len(listed) = Cardinality(expected)

HostRouteOps == {"host.call_tool", "host.get_prompt"}

\* the registered servers whose scope has the prefix p
RegisteredFor(p) ==
    {hostServers[i].id : i \in {j \in 1..Len(hostServers) :
        SubSeq(ServerScope(ClassOf(hostServers[j].id)), 1,
               Len(ServerScope(ClassOf(hostServers[j].id))) - 2) = p}}

\* C4: the host's call_tool and get_prompt dispatch a name 'p:rest' to the
\* server registered for scope prefix p and to no other; a name without
\* ':' raises ValueError, and so does a prefix with no registered server,
\* in both cases without invoking any server.
C4_Routing ==
    last.op \in HostRouteOps =>
        LET name == last.arg
            p == SubSeq(name, 1, FirstColon(name) - 1)
        IN  IF FirstColon(name) > Len(name) \/ RegisteredFor(p) = {}
            THEN /\ last.outcome = "ValueError"
                 /\ last.routedTo = NoServer
                 /\ last.handler = NoHandler
            ELSE /\ RegisteredFor(p) = {last.routedTo}
                 /\ last.handler # NoHandler => last.handler[1] = last.routedTo

\* two servers registered, a student_services name routed to the second
C4_Witness ==
    /\ last.op = "host.call_tool"
    /\ Len(hostServers) = 2
    /\ hostServers[1].id[1] = "FinanceMCP"
    /\ last.arg = STUDENT_SERVICES \o <<":", "register_host">>
    /\ last.routedTo = <<"StudentServicesMCP", 1>>
    /\ last.handler # NoHandler

\* where the host sends a tool call, in the state given
RouteOf(servers, s2s, sv, name) ==
    host_call_tool(servers, s2s, sv, name,
                   generate_scopes_from_role("super_admin"), FALSE).routedTo

\* C8: register_server raises ValueError when a server with the same scope
\* prefix is already registered and then leaves _servers and
\* _scope_to_server unchanged, so that every call for the prefix still goes
\* to the server registered first.
C8_RejectedRegistration ==
    [][ last'.op = "register_server" =>
          LET p == SplitFirst(ServerScope(ClassOf(last'.target)), ":")
          IN  /\ (p \in DOMAIN scopeToServer) <=> (last'.outcome = "ValueError")
              /\ last'.outcome = "ValueError" =>
                    /\ hostServers' = hostServers
                    /\ scopeToServer' = scopeToServer
                    /\ \A name \in ProbeNames :
                          RouteOf(hostServers', scopeToServer', srv', name)
                              = RouteOf(hostServers, scopeToServer, srv, name)
      ]_vars

\* a second finance server was rejected; the first one is still registered
C8_Witness ==
    /\ last.op = "register_server"
    /\ last.outcome = "ValueError"
    /\ last.target = <<"FinanceMCP", 2>>
    /\ ServersGet(hostServers, "finance-mcp") = <<"FinanceMCP", 1>>
    /\ RouteOf(hostServers, scopeToServer, srv, <<"finance", ":", "create_booking">>)
          = <<"FinanceMCP", 1>>

CallEndpoints == {"tools", "resources", "prompts"}

C6_AuthBeforeHost ==
    last.op \in Endpoints =>
        /\ last.creds = None =>
              /\ last.status = 403
              /\ last.hostOp = "none"
              /\ last.routedTo = NoServer
              /\ last.handler = NoHandler
              /\ last.result = EmptyCaps
        /\ last.hostOp # "none" => (last.creds # None /\ last.ctx # None)

\* the application serves, and a tool call without credentials is refused
C6_Witness ==
    /\ appPhase = "serving"
    /\ appStateHost
    /\ last.op = "tools"
    /\ last.arg = <<"finance", ":", "create_booking">>
    /\ last.creds = None
    /\ last.status = 403
    /\ last.hostOp = "none"

\* the scope prefixes of the six domains
SixPrefixes == {SubSeq(ServerScope(c), 1, Len(ServerScope(c)) - 2) : c \in Classes}

\* C7: after the startup has completed, the host in app.state has a server
\* registered for each of the six domains, so that a tool call with any of
\* the six scope prefixes is routed to a server.
C7_SixDomainsServed ==
    /\ (appPhase = "serving" /\ appStateHost)
          => \A p \in SixPrefixes : RegisteredFor(p) # {}
    /\ (/\ appPhase = "serving"
        /\ last.op = "tools"
        /\ last.hostOp = "call_tool"
        /\ FirstColon(last.arg) <= Len(last.arg)
        /\ SubSeq(last.arg, 1, FirstColon(last.arg) - 1) \in SixPrefixes)
          => last.routedTo # NoServer

\* types.Scope: the ten wildcard scopes
ScopeEnum ==
    { W(<<"identity">>), W(<<"finance">>), W(<<"academic">>), W(<<"attendance">>),
      W(<<"compliance">>), W(STUDENT_SERVICES), W(<<"ops">>), W(<<"quality">>),
      W(<<"teacher">>), W(<<"student">>) }

\* the roles that have an entry in the role map
MappedRoles == {"super_admin", "admin", "admin_dos", "admin_reception",
                "admin_student_operations", "admin_sales", "teacher",
                "teacher_dos", "student"}

\* C9: the context of a caller holds the scope list stored on the user row
\* when that list is non-empty, and otherwise the default scopes of the
\* user's role (super_admin: the ten wildcard scopes; student: only
\* 'student:*'; a role with no entry in the map: none).  A caller whose
\* role has no entry and whose row stores no scopes is listed no capability
\* and every tool call of that caller is refused.
C9_UserScopes ==
    (last.op \in Endpoints /\ last.creds # None /\ last.creds[1].kind = "valid"
        /\ last.creds[1].sub \in DOMAIN UserTable) =>
        LET row == UserTable[last.creds[1].sub]
            unmapped == row.role_scope \notin MappedRoles /\ row.scopes = <<>>
        IN  /\ last.ctx # None =>
                LET scopes == last.ctx[1].scopes
                IN  /\ row.scopes # <<>> => scopes = row.scopes
                    /\ row.scopes = <<>> =>
                          /\ scopes = generate_scopes_from_role(row.role_scope)
                          /\ row.role_scope = "super_admin" =>
                                (SeqToSet(scopes) = ScopeEnum /\ Len(scopes) = 10)
                          /\ row.role_scope = "student" =>
                                scopes = << W(<<"student">>) >>
                          /\ row.role_scope \notin MappedRoles => scopes = <<>>
            /\ unmapped =>
                  /\ last.handler = NoHandler
                  /\ last.status # 200 \/ last.op \in {"capabilities", "servers"}
                  /\ last.result.tools = <<>>
                  /\ last.result.resources = <<>>
                  /\ last.result.prompts = <<>>
                  /\ (last.op = "tools" /\ last.hostOp # "none")
                        => last.status \in {403, 404}

\* the application serves; a guest, whose role has no entry, is refused a
\* registered finance tool
C9_Witness ==
    /\ appPhase = "serving"
    /\ last.op = "tools"
    /\ last.arg = <<"finance", ":", "create_booking">>
    /\ last.creds = << Token("valid", "u_guest") >>
    /\ last.ctx # None
    /\ last.ctx[1].scopes = <<>>
    /\ last.outcome = "PermissionError"
    /\ last.status = 403

\* the tool counts the tests expect, by class
ExpectedToolCount(c) ==
    CASE c = "FinanceMCP"         -> 9
      [] c = "AcademicMCP"        -> 10
      [] c = "AttendanceMCP"      -> 8
      [] c = "StudentServicesMCP" -> 9
      [] c = "OperationsMCP"      -> 8
      [] c = "StudentMCP"         -> 10

\* C11: after initialize, tool_count is 9 for finance, 10 for academic, 8
\* for attendance, 9 for student-services, 8 for operations and 10 for
\* student; a host with all six registered and initialized reports
\* total_tool_count 54; in every state no server has more than 10 tools,
\* and a count reached by initialize is changed by no later initialize or
\* shutdown.
C11_ToolCounts ==
    [][ /\ \A id \in pool :
              LET n == tool_count(srv'[id])
                  c == ClassOf(id)
              IN  /\ n <= 10
                  /\ n \in {0, ExpectedToolCount(c)}
                  /\ srv'[id].initialized => n = ExpectedToolCount(c)
                  /\ tool_count(srv[id]) = ExpectedToolCount(c)
                        => n = ExpectedToolCount(c)
        /\ (/\ Len(hostServers') = 6
            /\ \A i \in 1..Len(hostServers') : srv'[hostServers'[i].id].tools # <<>>)
              => total_tool_count(hostServers', srv') = 54
      ]_vars

\* the six servers were initialized and shut down; the host still counts 54
C11_Witness ==
    /\ last.op = "host.shutdown"
    /\ Len(hostServers) = 6
    /\ \A i \in 1..Len(hostServers) : ~srv[hostServers[i].id].initialized
    /\ tool_count(srv[<<"FinanceMCP", 1>>]) = 9
    /\ tool_count(srv[<<"StudentMCP", 1>>]) = 10
    /\ total_tool_count(hostServers, srv) = 54

\* the part of a scope before its first ':'
ScopePrefix(scope) == SubSeq(scope, 1, FirstColon(scope) - 1)

\* C12: register_tool stores a tool whose given name contains no ':'
\* under '<p>:<name>', p being the part of the server's scope before ':',
\* and a name that contains ':' unchanged; the stored tool's required
\* scope is the given scope, or the server's scope when none is given.
\* initialize, which gives bare names and no scope, leaves every tool of
\* the class under its prefixed name.
C12_RegisterTool ==
    /\ last.op = "register_tool" =>
          LET s == srv[last.target]
              scope == ServerScope(ClassOf(last.target))
              key == IF FirstColon(last.arg) <= Len(last.arg) THEN last.arg
                     ELSE ScopePrefix(scope) \o <<":">> \o last.arg
          IN  /\ HasKey(s.tools, key)
              /\ Lookup(s.tools, key).scope =
                    IF last.given = None THEN scope ELSE last.given
              /\ Cardinality({i \in 1..Len(s.tools) : s.tools[i].key = key}) = 1
              /\ FirstColon(last.arg) > Len(last.arg) => ~HasKey(s.tools, last.arg)
    /\ last.op = "server.initialize" =>
          LET s == srv[last.target]
              c == ClassOf(last.target)
          IN  \A i \in 1..Len(ToolNames(c)) :
                 LET key == ScopePrefix(ServerScope(c)) \o <<":">> \o ToolNames(c)[i]
                 IN  HasKey(s.tools, key) /\ Lookup(s.tools, key).scope = ServerScope(c)

\* a bare name and a scope given to an initialized student-services server
C12_Witness ==
    /\ last.op = "register_tool"
    /\ last.target = <<"StudentServicesMCP", 1>>
    /\ last.arg = <<"create_booking">>
    /\ last.given = <<"finance", ":", "read">>
    /\ srv[last.target].initialized
    /\ HasKey(srv[last.target].tools, STUDENT_SERVICES \o <<":", "create_booking">>)
    /\ HasKey(srv[last.target].tools, <<"other", ":", "tool">>)

\* C13: GET /health/ready answers 200 exactly when app.state holds an MCP
\* host whose _initialized flag is true, that is between the end of the
\* startup (host.initialize has finished) and the shutdown (host.shutdown
\* clears the flag), and 503 in every other state; GET /health/live
\* answers 200 in every state.
C13_Health ==
    /\ last.op = "health.ready" =>
          /\ last.status \in {200, 503}
          /\ last.status = 200 <=> (appStateHost /\ hostInitialized)
          /\ last.status = 200 <=> appPhase = "serving"
    /\ last.op = "health.live" => last.status = 200

\* after the shutdown app.state still holds the host, and ready answers 503
C13_Witness ==
    /\ last.op = "health.ready"
    /\ appPhase = "stopped"
    /\ appStateHost
    /\ ~hostInitialized
    /\ last.status = 503

\* C14: get_capabilities returns (does not raise) a CapabilitiesResponse
\* whose serverInfo holds the host's name, its version and a 'servers'
\* list with exactly one entry per registered server.
C14_ServerInfo ==
    last.op = "host.get_capabilities" =>
        /\ last.outcome = "ok"
        /\ last.result.name = HostName
        /\ last.result.version = HostVersion
        /\ Len(last.result.servers) = Len(hostServers)
        /\ \A i \in 1..Len(hostServers) :
              last.result.servers[i][1] = hostServers[i].name

\* C15: concurrent requests need no coordination.  Whenever no
\* allocate_accommodation call is in progress and no database request has
\* failed, the state is one that calls run one after the other leave: the
\* host's current_occupancy has risen by one per created allocation, and
\* neither exceeds the host's capacity.
C15_Serializable ==
    (/\ \A c \in CallIds : calls[c].pc \in {"idle", "done"}
     /\ ~db.faults)
        => /\ db.host.current_occupancy = db.allocations
           /\ db.host.current_occupancy <= db.host.capacity
           /\ db.allocations <= db.host.capacity

\* C16: the isError flag of the ToolCallResponse reflects the outcome of
\* the tool: it is true whenever the tool's operation failed (the handler
\* raised, or its backend call failed) and false only when the operation
\* succeeded; no exception raised inside a handler leaves call_tool.
C16_IsErrorReflectsOutcome ==
    (last.op = "finance.call_tool" /\ last.handler # NoHandler) =>
        /\ last.outcome = "ok"
        /\ last.effect = "failed" => last.isError
        /\ ~last.isError => last.effect = "done"

\* C20: tenant isolation in the finance server.  Every row a finance tool
\* or resource handler reads or modifies has the tenant_id of the caller's
\* AuthContext, so that of two callers with the same scopes and different
\* tenants neither sees nor changes a row of the other.
C20_TenantIsolation ==
    last.op \in {"finance.call_tool", "finance.fetch_resource"} =>
        \A r \in last.touched : r.tenant_id = last.ctx[1].tenant_id

\* C17: after any sequence of register_server calls, successful or
\* rejected, every scope prefix in _scope_to_server maps to a name present
\* in _servers whose server has exactly that scope prefix, and
\* server_count equals the number of register_server calls that did not
\* raise: it is 0 at first, a call that does not raise adds one, and a
\* call that raises adds nothing.
C17_RegistryConsistent ==
    [][ /\ \A p \in DOMAIN scopeToServer' :
              /\ ServersHas(hostServers', scopeToServer'[p])
              /\ ScopePrefix(ServerScope(ClassOf(
                     ServersGet(hostServers', scopeToServer'[p])))) = p
        /\ last'.op = "register_server" =>
              server_count(hostServers') =
                 server_count(hostServers) + (IF last'.outcome = "ok" THEN 1 ELSE 0)
      ]_vars

\* C18: whenever the host's _initialized flag is true, every server
\* registered with the host has its own _initialized flag true, for any
\* order of register_server, host.initialize and host.shutdown calls,
\* including a run in which one server's initialize raises.
C18_InitializedServers ==
    hostInitialized =>
        \A i \in 1..Len(hostServers) : srv[hostServers[i].id].initialized

\* the servers with every _initialized flag inverted
FlagsInverted(sv) == [id \in DOMAIN sv |-> [sv[id] EXCEPT !.initialized = ~@]]

\* what a tool call comes to: the server, the outcome and the handler
CallOf(servers, s2s, sv, name, scopes) ==
    LET r == host_call_tool(servers, s2s, sv, name, scopes, FALSE)
    IN  <<r.routedTo, r.outcome, r.handler>>

\* C19: shutdown changes only the _initialized flags: every tool, resource
\* and prompt stays registered, and every tool call is routed, authorized
\* and executed after the shutdown exactly as before it.  call_tool does
\* not consult _initialized: the same call with the flags inverted comes to
\* the same.  A call made while no server has been initialized finds no
\* tool and raises ValueError.
C19_ShutdownFrame ==
    [][ /\ last'.op = "host.shutdown" =>
              /\ hostServers' = hostServers
              /\ scopeToServer' = scopeToServer
              /\ \A id \in pool :
                    /\ srv'[id].tools = srv[id].tools
                    /\ srv'[id].resources = srv[id].resources
                    /\ srv'[id].prompts = srv[id].prompts
                    /\ ~srv'[id].initialized \/ ~Registered(hostServers, id)
              /\ ~hostInitialized'
              /\ \A name \in ProbeNames, ctx \in TestContexts :
                    CallOf(hostServers', scopeToServer', srv', name, ctx.scopes)
                        = CallOf(hostServers, scopeToServer, srv, name, ctx.scopes)
        /\ last'.op = "host.call_tool" =>
              /\ <<last'.routedTo, last'.outcome, last'.handler>>
                    = CallOf(hostServers, scopeToServer, FlagsInverted(srv),
                             last'.arg, last'.ctx[1].scopes)
              /\ (\A id \in pool : srv[id].tools = <<>>)
                    => (last'.outcome = "ValueError" /\ last'.handler = NoHandler)
      ]_vars

\* the host was shut down, and a finance tool call is executed all the same
C19_Witness ==
    /\ last.op = "host.call_tool"
    /\ last.arg = <<"finance", ":", "create_booking">>
    /\ ~hostInitialized
    /\ last.routedTo = <<"FinanceMCP", 1>>
    /\ ~srv[last.routedTo].initialized
    /\ last.outcome = "ok"
    /\ last.handler # NoHandler

Corrected(d, given) == d.attendance[given.attendance_id]

\* C22: attendance:correct_attendance changes a record's status only after
\* it has inserted an attendance_correction audit row holding the old and
\* the new status; it inserts no audit row and changes nothing when the
\* record was recorded more than 48 hours ago and the caller's role is
\* neither super_admin nor admin; each accepted correction raises
\* correction_count by one.
C22_AuditedCorrection ==
    [][(last'.op = "attendance.call_tool" /\ last'.arg = CORRECT_ATTENDANCE) =>
          /\ \A i \in 1..Len(db.attendance) :
                db'.attendance[i].status # db.attendance[i].status =>
                    /\ Len(db'.attendance_correction) = Len(db.attendance_correction) + 1
                    /\ LET audit == db'.attendance_correction[Len(db'.attendance_correction)]
                       IN  /\ audit.attendance_id = i
                           /\ audit.old_status = db.attendance[i].status
                           /\ audit.new_status = db'.attendance[i].status
          /\ (/\ last'.handler # NoHandler
              /\ last'.given.attendance_id \in 1..Len(db.attendance)
              /\ Corrected(db, last'.given).recorded_at # NULL
              /\ last'.now - Corrected(db, last'.given).recorded_at > 48
              /\ last'.ctx[1].role \notin {"super_admin", "admin"})
                 => (db' = db /\ last'.effect = "failed")
          /\ last'.effect = "done" =>
                /\ Corrected(db', last'.given).correction_count
                       = Corrected(db, last'.given).correction_count + 1
                /\ Corrected(db', last'.given).status = last'.given.new_status
                /\ Len(db'.attendance_correction) = Len(db.attendance_correction) + 1]_vars

\* a teacher has corrected, within the 48 hours, a record that was absent:
\* the audit row holds absent and the new status, and the count is one
C22_Witness ==
    /\ last.op = "attendance.call_tool"
    /\ last.arg = CORRECT_ATTENDANCE
    /\ last.ctx[1].role = "teacher"
    /\ last.effect = "done"
    /\ last.given.attendance_id = 1
    /\ db.attendance[1].status = "late"
    /\ db.attendance[1].correction_count = 1
    /\ db.attendance_correction[Len(db.attendance_correction)].old_status = "absent"

\* the records whose recorded_at is before the date
IsBefore(record, date) == record.recorded_at # NULL /\ record.recorded_at < date

AllocatedAt(d, h) ==
    {i \in 1..Len(d.accommodation_allocation) : d.accommodation_allocation[i].host_id = h}

ActiveAt(d, student, h) ==
    \E i \in 1..Len(d.accommodation_allocation) :
        d.accommodation_allocation[i] =
            [student_id |-> student, host_id |-> h, status |-> "active"]

\* C25: student_services:swap_accommodation is all-or-nothing: when it
\* returns, either the old allocation is ended and the student has an
\* active allocation at the new host, or the old allocation is still active
\* and no host's occupancy has changed; it returns success=true only in the
\* first case (in particular not when the new host is at full capacity).
C25_SwapAllOrNothing ==
    [][(/\ last'.op = "student_services.call_tool"
        /\ last'.arg = SWAP
        /\ last'.handler # NoHandler
        /\ last'.given.allocation_id \in 1..Len(db.accommodation_allocation)
        /\ db.accommodation_allocation[last'.given.allocation_id].status = "active") =>
          LET a == last'.given.allocation_id
              old == db.accommodation_allocation[a]
              swapped ==
                  /\ db'.accommodation_allocation[a].status = "ended"
                  /\ Len(db'.accommodation_allocation)
                         = Len(db.accommodation_allocation) + 1
                  /\ ActiveAt(db', old.student_id, last'.given.new_host_id)
              untouched ==
                  /\ db'.accommodation_allocation[a].status = "active"
                  /\ db'.host = db.host
          IN  /\ swapped \/ untouched
              /\ last'.effect = "done" => swapped]_vars

\* the number of data rows of the uploaded sheet that the extraction limit
\* of 10000 rows, the header included, lets through
DataRows == IF db.sheet_rows = 0 THEN 0
            ELSE (IF db.sheet_rows < 10000 THEN db.sheet_rows ELSE 10000) - 1

\* C26: TransformService.execute_transformation extracts all data rows of
\* the sheet (no preview row limit, up to the 10000-row extraction limit),
\* builds one record per data row with source_row equal to the row's
\* spreadsheet row number, and reports total_rows equal to the sheet's
\* number of data rows.
C26_AllRowsTransformed ==
    (last.op = "execute_transformation" /\ last.outcome = "ok") =>
        /\ last.result.total_rows = DataRows
        /\ Len(last.result.records) = DataRows
        /\ \A k \in 1..Len(last.result.records) :
              /\ last.result.records[k].source_row = k + 1
              /\ last.result.records[k].id = <<k + 1>>

====
